---- MODULE Spec2Model ----
(***************************************************************************)
(* VeloTrek: the offline tile cache (OfflineTiles) and its download        *)
(* orchestrator downloadTiles, the offline tile layer of the map, the tile *)
(* index calculator, the nearest-point locator and the KML parser.         *)
(*                                                                         *)
(* Each component has its own variables and its own specification; the     *)
(* variables of the components a specification does not run stay at their  *)
(* initial values.                                                         *)
(*                                                                         *)
(* JavaScript runs the code between two awaits as one uninterrupted step,  *)
(* so every action below is "one awaited promise settles, and the code     *)
(* runs on to the next await or to its return".  The awaits of             *)
(* downloadTiles are: getTile (checking loop), fetch, resp.blob, putTile   *)
(* and the setTimeout delay (worker loop), and Promise.all.                *)
(***************************************************************************)
EXTENDS Integers, Sequences, FiniteSets, TLC

\* ------------------------------------------------------------------ bounds
MaxKeys == 3          \* tile keys that exist in the modelled world
MaxConcurrency == 2   \* largest options.concurrency tried
MaxTileRequests == 1  \* tile elements of the map layer alive at a time
MaxPoints == 2        \* points of a short route segment
MaxRoutePoints == 3   \* points of a short flattened route of the locator
MaxPlacemarks == 2    \* Placemark elements of a KML document
MaxElevations == 5    \* points of a line of elevations
MaxHalfDays == 3       \* half days that pass while the catalog is used
MaxFetchEvents == 2    \* fetch events for one url the service worker handles
MaxClickHandlers == 2  \* runs of the navigation button's handler in flight
MaxStarts == 3         \* GPSTracker.start() calls

Keys == 1..MaxKeys

\* options.delayMs as the callers may pass it (0 switches the pause off).
DelayChoices == {0, 100}

\* options.signal: null, an AbortSignal not yet aborted, an aborted one.
SignalStates == {"null", "active", "aborted"}

VARIABLES
  store,         \* keys present in the IndexedDB object store 'tiles'
  dbPromise,     \* the memoised idb.openDB promise: "null", "open", "rejected"
  pc,            \* downloadTiles: "idle", "checking", "downloading",
                 \*                "returned", "rejected"
  signal,        \* options.signal
  concurrency,   \* options.concurrency
  delayMs,       \* options.delayMs
  allTileKeys,   \* getTilesForRoute(routeData, zoomMin, zoomMax)
  chk,           \* index in allTileKeys of the key whose getTile is awaited
  toDownload,    \* keys found absent by the checking loop
  cached,        \* counter
  total,         \* toDownload.length
  completed,     \* counter
  failed,        \* counter
  queue,         \* the shared queue of the workers
  workers,       \* the array of worker() promises: position and key of each
  progress,      \* the onProgress calls made so far by this invocation
  result,        \* the value downloadTiles resolved with
  fetches,       \* history: key -> number of fetch(url) issued for the key
                 \* (the url is the template with the key's z, x, y put in,
                 \* so a fetch is identified by its key)
  written,       \* history: keys this invocation passed to a successful put
  failedKeys,    \* history: keys whose attempt ended in failed++
  probed,        \* history: keys for which getTile of the checking loop
                 \* returned a blob
  clearedSince,  \* history: clearAllTiles ran since the last invocation began
  idem,          \* history: this invocation repeats a previous one that
                 \* returned failed = 0, cancelled = false, same route and
                 \* zooms, and clearAllTiles has not run since that one began
  prevConcurrency \* history: options.concurrency of that previous invocation

\* The tile layer of the map (OfflineTileLayer) and deleteTilesForRoute.
VARIABLES
  layer,         \* the <img> elements made by createTile, see NoTile
  del            \* deleteTilesForRoute: position, cursor, deleted, value

storeVars == <<store, dbPromise>>

jobVars == <<pc, signal, concurrency, delayMs, allTileKeys, chk, toDownload,
             cached, total, completed, failed, queue, workers, progress,
             result, fetches, written, failedKeys, probed, clearedSince, idem,
             prevConcurrency>>

layerVars == <<layer>>

delVars == <<del>>

\* The tile index calculator, getTilesForRoute.
VARIABLES
  routeData,     \* the argument: [bbox, segments]
  zoomMin,       \* the argument
  zoomMax,       \* the argument
  tiles,         \* the Set `tiles`, returned as an array
  tilesPc        \* "idle", "called", "returned"

tilesVars == <<routeData, zoomMin, zoomMax, tiles, tilesPc>>

\* The nearest-point locator, GPSTracker.findNearestPoint.
VARIABLES
  routePoints,   \* the flattened route: a sequence of points [lat, lon, ele]
  queryPoint,    \* the arguments <<lat, lon>>
  nearest,       \* the value returned: [point, distance, index]
  nearPc         \* "idle", "called", "returned"

nearVars == <<routePoints, queryPoint, nearest, nearPc>>

\* The KML parser, KMLParser.parse.
VARIABLES
  kmlDoc,        \* the document: a sequence of placemarks
  parsed,        \* the value returned: [pois, segments, bbox, stats, values]
  parsePc        \* "idle", "called", "returned"

parseVars == <<kmlDoc, parsed, parsePc>>

\* The cache-status requests of the route page, isKmlCached and
\* cacheKmlFile, and the message handler of the service worker.
VARIABLES
  request,       \* the promise returned: [kind, state, value, resolves]
  timer,         \* the setTimeout of the request: "none", "armed", "fired"
  elapsed,       \* milliseconds since the request was made
  port1,         \* the replies posted to port2 and not yet delivered
  handler        \* the service worker's run for the message: [pc, type,
                 \* found, stored]

statusVars == <<request, timer, elapsed, port1, handler>>

\* The catalog of routes, App.loadCatalog, and its copy in localStorage.
VARIABLES
  localStorage,  \* the item "velotrek-catalog": <<>> or <<[timestamp,
                 \* sections]>>
  now,           \* Date.now(), in milliseconds
  catalog,       \* the call of loadCatalog: [pc, item, cached, onUpdate,
                 \* failed, result]
  refresh        \* the fetch in the background: "idle", "fetch", "json"

catalogVars == <<localStorage, now, catalog, refresh>>

\* The network-first strategy of the service worker for route resources.
VARIABLES
  routesCache,   \* the entry of the routes cache for the url: the status of
                 \* the stored response, 0 without an entry
  fetchEvents    \* the fetch events for the url: [pc, response, answer]

swVars == <<routesCache, fetchEvents>>

\* The navigation button of the route page and GPSTracker.
VARIABLES
  device,        \* what the browser offers: [platform, wakeLock]
  gps            \* the page's gpsStarted and click handlers, the tracker's
                 \* variables, and the browser's watches and listeners

gpsVars == <<device, gps>>

\* The download panel of the route page.
VARIABLES
  panelTimer     \* the setTimeout of the page's 'done' handler: "none",
                 \* or the branch whose callback has run: "cancelled",
                 \* "finished"

uiVars == <<panelTimer>>

\* The variables of the service worker's fetch handler and of the device.
deviceVars == <<swVars, gpsVars, uiVars>>

\* The variables of the route page and the catalog.
pageVars == <<statusVars, catalogVars, deviceVars>>

\* The variables of the components that do not touch the tile store (tile
\* index, locator, parser, route page, catalog).
pureVars == <<tilesVars, nearVars, parseVars, pageVars>>

vars == <<storeVars, jobVars, layerVars, delVars, pureVars>>

\* ------------------------------------------------------------ small helpers
Min(S) == CHOOSE m \in S : \A n \in S : m <= n

RECURSIVE SetToSeq(_)
SetToSeq(S) == IF S = {} THEN <<>> ELSE <<Min(S)>> \o SetToSeq(S \ {Min(S)})

Range(s) == {s[i] : i \in DOMAIN s}

\* The arrays getTilesForRoute can return: [...tiles] of a Set, hence a
\* duplicate-free list of keys (possibly empty, e.g. zoomMin > zoomMax).
\* A route with its zoom range is identified here with the key set it needs;
\* the routes tried are nested, so that they share tiles.
Routes == {1..n : n \in 0..MaxKeys}

TilesOfRoute(route) == SetToSeq(route)

\* signal && signal.aborted
Aborted(sig) == sig = "aborted"

NoResult == [total |-> 0, completed |-> 0, failed |-> 0, cached |-> 0,
             cancelled |-> FALSE]

\* ----------------------------------------------------------------- storage
\* getDB: the first call opens the database and memoises the promise, be it
\* fulfilled or rejected; later calls return the same promise.
getDB(p) == IF p = "null" THEN {"open", "rejected"} ELSE {p}

\* getTile on an open database: db.get(STORE_NAME, key), the blob or
\* undefined; the callers only test it for truthiness.
getTile(st, key) == key \in st

\* A put acknowledged but not stored.
putTile_Lost(st, key) == st

\* putTile on an open database: db.put(STORE_NAME, blob, key).
putTile(st, key) == st \cup {key}

\* ------------------------------------------------- the job of one invocation
\* The local variables of one downloadTiles call, threaded through the
\* synchronous stretches of code below.
Job == [pc |-> pc, signal |-> signal, concurrency |-> concurrency,
        delayMs |-> delayMs, allTileKeys |-> allTileKeys, chk |-> chk,
        toDownload |-> toDownload, cached |-> cached, total |-> total,
        completed |-> completed, failed |-> failed, queue |-> queue,
        workers |-> workers, progress |-> progress, result |-> result,
        fetches |-> fetches, written |-> written, failedKeys |-> failedKeys,
        probed |-> probed]

Commit(j) ==
  /\ pc' = j.pc
  /\ signal' = j.signal
  /\ concurrency' = j.concurrency
  /\ delayMs' = j.delayMs
  /\ allTileKeys' = j.allTileKeys
  /\ chk' = j.chk
  /\ toDownload' = j.toDownload
  /\ cached' = j.cached
  /\ total' = j.total
  /\ completed' = j.completed
  /\ failed' = j.failed
  /\ queue' = j.queue
  /\ workers' = j.workers
  /\ progress' = j.progress
  /\ result' = j.result
  /\ fetches' = j.fetches
  /\ written' = j.written
  /\ failedKeys' = j.failedKeys
  /\ probed' = j.probed

\* onProgress({ phase, total, completed, failed, cached[, cancelled] });
\* cancelled is "undefined" where the object literal has no such property.
onProgress(j, phase, tot, comp, fail, cach, canc) ==
  [j EXCEPT !.progress = Append(@, [phase |-> phase, total |-> tot,
                                    completed |-> comp, failed |-> fail,
                                    cached |-> cach, cancelled |-> canc])]

BoolStr(b) == IF b THEN "true" ELSE "false"

Return(j, res) == [j EXCEPT !.pc = "returned", !.result = res]

\* The result reporting the length of the queued subset as its total.
Finish_QueuedTotal(j) ==
  LET cancelled == Aborted(j.signal)
      j1 == onProgress(j, "done", j.total, j.completed, j.failed, j.cached,
                       BoolStr(cancelled))
  IN Return(j1, [total |-> j.total, completed |-> j.completed,
                 failed |-> j.failed, cached |-> j.cached,
                 cancelled |-> cancelled])

\* Lines 467-470: after Promise.all.
Finish(j) ==
  LET cancelled == Aborted(j.signal)
      j1 == onProgress(j, "done", j.total, j.completed, j.failed, j.cached,
                       BoolStr(cancelled))
  IN Return(j1, [total |-> Len(j.allTileKeys), completed |-> j.completed,
                 failed |-> j.failed, cached |-> j.cached,
                 cancelled |-> cancelled])

\* Promise.all(workers) resolves when every worker promise has resolved; the
\* continuation runs in the same macrotask as the last worker's return.
promiseAll(j) ==
  IF \A w \in DOMAIN j.workers : j.workers[w].pc = "returned"
  THEN Finish(j) ELSE j

\* A worker that does not look at the signal before it dequeues.
workerLoop_NoAbortCheck(j, w) ==
  IF Len(j.queue) > 0
  THEN LET key == Head(j.queue)
       IN [j EXCEPT !.queue = Tail(@),
                    !.workers[w] = [pc |-> "fetch", key |-> key],
                    !.fetches[key] = @ + 1]
  ELSE [j EXCEPT !.workers[w] = [pc |-> "returned", key |-> 0]]

\* A worker that polls the signal only when it has just been created, not
\* when it comes back from an attempt or a delay.
workerLoop_AbortOnlyAtStart(j, w) ==
  IF Len(j.queue) > 0
  THEN IF Aborted(j.signal) /\ j.workers[w].pc = "new"
       THEN [j EXCEPT !.workers[w] = [pc |-> "returned", key |-> 0]]
       ELSE LET key == Head(j.queue)
            IN [j EXCEPT !.queue = Tail(@),
                         !.workers[w] = [pc |-> "fetch", key |-> key],
                         !.fetches[key] = @ + 1]
  ELSE [j EXCEPT !.workers[w] = [pc |-> "returned", key |-> 0]]

\* A worker that reads queue[0] and leaves the key in the queue while its
\* fetch is in flight (it removes it when it next comes round).
workerLoop_Peek(j, w) ==
  IF Len(j.queue) > 0
  THEN IF Aborted(j.signal)
       THEN [j EXCEPT !.workers[w] = [pc |-> "returned", key |-> 0]]
       ELSE LET q == IF j.workers[w].pc = "new" THEN j.queue ELSE Tail(j.queue)
            IN IF Len(q) = 0
               THEN [j EXCEPT !.queue = q,
                              !.workers[w] = [pc |-> "returned", key |-> 0]]
               ELSE [j EXCEPT !.queue = q,
                              !.workers[w] = [pc |-> "fetch", key |-> Head(q)],
                              !.fetches[Head(q)] = @ + 1]
  ELSE [j EXCEPT !.workers[w] = [pc |-> "returned", key |-> 0]]

\* A worker whose first `queue.shift()` is not guarded by the test of the
\* queue: shift() of an empty array returns undefined, here the key 0.
workerLoop_ShiftUntested(j, w) ==
  IF Len(j.queue) > 0 \/ j.workers[w].pc = "new"
  THEN IF Aborted(j.signal)
       THEN [j EXCEPT !.workers[w] = [pc |-> "returned", key |-> 0]]
       ELSE IF Len(j.queue) > 0
       THEN [j EXCEPT !.queue = Tail(@),
                      !.workers[w] = [pc |-> "fetch", key |-> Head(j.queue)],
                      !.fetches[Head(j.queue)] = @ + 1]
       ELSE [j EXCEPT !.workers[w] = [pc |-> "fetch", key |-> 0]]
  ELSE [j EXCEPT !.workers[w] = [pc |-> "returned", key |-> 0]]

\* The top of worker()'s while loop, lines 433-444, up to `await fetch(url)`.
workerLoop(j, w) ==
  IF Len(j.queue) > 0
  THEN IF Aborted(j.signal)
       THEN [j EXCEPT !.workers[w] = [pc |-> "returned", key |-> 0]]
       ELSE LET key == Head(j.queue)
            IN [j EXCEPT !.queue = Tail(@),
                         !.workers[w] = [pc |-> "fetch", key |-> key],
                         !.fetches[key] = @ + 1]
  ELSE [j EXCEPT !.workers[w] = [pc |-> "returned", key |-> 0]]

\* One worker too many.
workerCount_OneMore(j) == j.concurrency + 1

\* { length: concurrency }
workerCount(j) == j.concurrency

\* Array.from({ length: concurrency }, () => worker()): each worker runs
\* synchronously up to its first await before the next one is created.
RECURSIVE spawnWorkers(_, _)
spawnWorkers(j, w) ==
  IF w > workerCount(j) THEN j
  ELSE spawnWorkers(
         workerLoop([j EXCEPT !.workers = Append(@, [pc |-> "new", key |-> 0])],
                    w),
         w + 1)

\* Lines 419-465: after the checking loop.
afterChecking(j) ==
  LET j1 == [j EXCEPT !.total = Len(j.toDownload), !.completed = 0,
                      !.failed = 0, !.chk = 0]
      j2 == onProgress(j1, "downloading", j1.total, 0, 0, j1.cached,
                       "undefined")
  IN IF j2.total = 0
     THEN Return(onProgress(j2, "done", 0, 0, 0, j2.cached, "undefined"),
                 [total |-> Len(j.allTileKeys), completed |-> 0, failed |-> 0,
                  cached |-> j2.cached, cancelled |-> FALSE])
     ELSE promiseAll(spawnWorkers([j2 EXCEPT !.queue = j2.toDownload,
                                             !.pc = "downloading"], 1))

\* Lines 409-411: the head of one iteration of the checking loop, for the
\* key at index i, up to `await getTile(key)`.
checkingLoop(j, i) ==
  IF i > Len(j.allTileKeys) THEN afterChecking(j)
  ELSE IF Aborted(j.signal)
       THEN Return([j EXCEPT !.chk = 0],
                   [total |-> Len(j.allTileKeys), completed |-> 0,
                    failed |-> 0, cached |-> j.cached, cancelled |-> TRUE])
       ELSE [j EXCEPT !.pc = "checking", !.chk = i]

\* An attempt that reports nothing.
afterAttempt_Silent(j, w) ==
  IF j.delayMs > 0 /\ Len(j.queue) > 0
  THEN [j EXCEPT !.workers[w] = [pc |-> "delay", key |-> 0]]
  ELSE promiseAll(workerLoop(j, w))

\* Lines 456-461: after the try/catch of one attempt.
afterAttempt(j, w) ==
  LET j1 == onProgress(j, "downloading", j.total, j.completed, j.failed,
                       j.cached, "undefined")
  IN IF j1.delayMs > 0 /\ Len(j1.queue) > 0
     THEN [j1 EXCEPT !.workers[w] = [pc |-> "delay", key |-> 0]]
     ELSE promiseAll(workerLoop(j1, w))

\* A failure that escapes the worker and rejects Promise.all.
attemptFailed_Rethrow(j, w) ==
  [j EXCEPT !.pc = "rejected",
            !.failed = @ + 1,
            !.failedKeys = @ \cup {j.workers[w].key},
            !.workers[w] = [pc |-> "returned", key |-> 0]]

\* failed++ in the else branch (line 450) or in the catch (line 453).
attemptFailed(j, w) ==
  afterAttempt([j EXCEPT !.failed = @ + 1,
                         !.failedKeys = @ \cup {j.workers[w].key}], w)

\* A key found in the store and put on the list to download all the same.
probeHit_Requeued(j, key) ==
  [j EXCEPT !.cached = @ + 1, !.probed = @ \cup {key},
            !.toDownload = Append(@, key)]

\* Lines 412-414: `existing` is a blob.
probeHit(j, key) == [j EXCEPT !.cached = @ + 1, !.probed = @ \cup {key}]

\* ------------------------------------------------------------------ actions
\* The store holds whatever earlier sessions left in it; the database is
\* not opened yet.
StoreAny ==
  /\ store \in SUBSET Keys
  /\ dbPromise = "null"

StoreEmpty ==
  /\ store = {}
  /\ dbPromise = "null"

\* No downloadTiles call made yet.
DownloadIdle ==
  /\ pc = "idle"
  /\ signal = "null"
  /\ concurrency = 0
  /\ delayMs = 0
  /\ allTileKeys = <<>>
  /\ chk = 0
  /\ toDownload = <<>>
  /\ cached = 0
  /\ total = 0
  /\ completed = 0
  /\ failed = 0
  /\ queue = <<>>
  /\ workers = <<>>
  /\ progress = <<>>
  /\ result = NoResult
  /\ fetches = [k \in Keys |-> 0]
  /\ written = {}
  /\ failedKeys = {}
  /\ probed = {}
  /\ clearedSince = FALSE
  /\ idem = FALSE
  /\ prevConcurrency = 0

\* downloadTiles(routeData, tileUrlTemplate, options), lines 392-411: from the
\* call to the first await (or to a return with no await at all).
downloadTiles(route, conc, delay, sig) ==
  /\ pc \in {"idle", "returned", "rejected"}
  /\ LET keys == TilesOfRoute(route)
         repeats == /\ pc = "returned"
                    /\ result.failed = 0
                    /\ ~result.cancelled
                    /\ ~clearedSince
                    /\ keys = allTileKeys
         j0 == [pc |-> "checking", signal |-> sig, concurrency |-> conc,
                delayMs |-> delay, allTileKeys |-> keys, chk |-> 0,
                toDownload |-> <<>>, cached |-> 0, total |-> 0,
                completed |-> 0, failed |-> 0, queue |-> <<>>,
                workers |-> <<>>, progress |-> <<>>, result |-> NoResult,
                fetches |-> [k \in Keys |-> 0], written |-> {},
                failedKeys |-> {}, probed |-> {}]
         j1 == onProgress(j0, "checking", Len(keys), 0, 0, 0, "undefined")
     IN /\ Commit(checkingLoop(j1, 1))
        /\ idem' = repeats
        /\ prevConcurrency' = IF repeats THEN concurrency ELSE 0
  /\ clearedSince' = FALSE
  /\ UNCHANGED <<store, dbPromise>>
  /\ UNCHANGED <<layerVars, delVars, pureVars>>

\* `await getTile(key)` of the checking loop settles (lines 411-417, then the
\* head of the next iteration).  The read rejects when the database could not
\* be opened or the get request fails; nothing in downloadTiles catches that.
getTileSettles(db, err) ==
  /\ pc = "checking"
  /\ db \in getDB(dbPromise)
  /\ dbPromise' = db
  /\ LET key == allTileKeys[chk]
     IN IF db = "rejected" \/ err
        THEN Commit([Job EXCEPT !.pc = "rejected", !.chk = 0])
        ELSE IF getTile(store, key)
             THEN Commit(checkingLoop(probeHit(Job, key), chk + 1))
             ELSE Commit(checkingLoop([Job EXCEPT !.toDownload = Append(@, key)],
                                      chk + 1))
  /\ UNCHANGED <<store, clearedSince, idem, prevConcurrency>>
  /\ UNCHANGED <<layerVars, delVars, pureVars>>

\* `await fetch(url)` settles: a response with ok, a response without ok, or
\* a rejection (transport error).
fetchSettles(w, outcome) ==
  /\ pc = "downloading"
  /\ w \in DOMAIN workers
  /\ workers[w].pc = "fetch"
  /\ IF outcome = "ok"
     THEN Commit([Job EXCEPT !.workers[w].pc = "blob"])
     ELSE Commit(attemptFailed(Job, w))
  /\ UNCHANGED <<store, dbPromise, clearedSince, idem, prevConcurrency>>
  /\ UNCHANGED <<layerVars, delVars, pureVars>>

\* `await resp.blob()` settles; on success putTile(key, blob) is called.
blobSettles(w, ok) ==
  /\ pc = "downloading"
  /\ w \in DOMAIN workers
  /\ workers[w].pc = "blob"
  /\ IF ok
     THEN Commit([Job EXCEPT !.workers[w].pc = "put"])
     ELSE Commit(attemptFailed(Job, w))
  /\ UNCHANGED <<store, dbPromise, clearedSince, idem, prevConcurrency>>
  /\ UNCHANGED <<layerVars, delVars, pureVars>>

\* `await putTile(key, blob)` settles (lines 447-448, or the catch).
putTileSettles(w, db, err) ==
  /\ pc = "downloading"
  /\ w \in DOMAIN workers
  /\ workers[w].pc = "put"
  /\ db \in getDB(dbPromise)
  /\ dbPromise' = db
  /\ LET key == workers[w].key
     IN IF db = "rejected" \/ err
        THEN /\ Commit(attemptFailed(Job, w))
             /\ store' = store
        ELSE /\ Commit(afterAttempt([Job EXCEPT !.completed = @ + 1,
                                                !.written = @ \cup {key}], w))
             /\ store' = putTile(store, key)
  /\ UNCHANGED <<clearedSince, idem, prevConcurrency>>
  /\ UNCHANGED <<layerVars, delVars, pureVars>>

\* The setTimeout of line 459 fires; the worker goes round its loop.
delayElapses(w) ==
  /\ pc = "downloading"
  /\ w \in DOMAIN workers
  /\ workers[w].pc = "delay"
  /\ Commit(promiseAll(workerLoop(Job, w)))
  /\ UNCHANGED <<store, dbPromise, clearedSince, idem, prevConcurrency>>
  /\ UNCHANGED <<layerVars, delVars, pureVars>>

\* The owner of the AbortController calls abort() while the call is running
\* (the cancel button of the route page).
abort ==
  /\ pc \in {"checking", "downloading"}
  /\ signal = "active"
  /\ signal' = "aborted"
  /\ UNCHANGED <<store, dbPromise, pc, concurrency, delayMs, allTileKeys, chk,
                 toDownload, cached, total, completed, failed, queue, workers,
                 progress, result, fetches, written, failedKeys, probed,
                 clearedSince, idem, prevConcurrency>>
  /\ UNCHANGED <<layerVars, delVars, pureVars>>

\* clearAllTiles(): the bulk clear of the object store.
clearAllTiles(db) ==
  /\ db \in getDB(dbPromise)
  /\ dbPromise' = db
  /\ db = "open"
  /\ store' = {}
  /\ clearedSince' = TRUE
  /\ idem' = FALSE
  /\ prevConcurrency' = 0
  /\ UNCHANGED <<pc, signal, concurrency, delayMs, allTileKeys, chk,
                 toDownload, cached, total, completed, failed, queue, workers,
                 progress, result, fetches, written, failedKeys, probed>>
  /\ UNCHANGED <<layerVars, delVars, pureVars>>

\* --------------------------------------------------------- the tile layer
\* One <img> element of OfflineTileLayer (src/js/map.js):
\*   pc      where createTile's promise chain stands for it: "none",
\*           "getTile", "fetch", "blob", "img" (the browser loads src = url),
\*           "placeholder" (the browser loads the placeholder data URL while
\*           tile.onload is set), "shown"
\*   lookup  what OfflineTiles.getTile(key) answered: "none" (no answer
\*           yet), "blob", "absent", "failed"
\*   net     history: network requests made for this element
\*   done    history: calls of the done callback
\*   src     "none", "blob", "url", "placeholder"
\*   put     the putTile of line 43: "none", "pending", "settled"
NoTile == [pc |-> "none", key |-> 0, lookup |-> "none", net |-> 0, done |-> 0,
           src |-> "none", put |-> "none"]

TileRequests == 1..MaxTileRequests

\* A layer that goes to the network whatever the store answered.
onLookup_NetworkFirst(t, found) ==
  [t EXCEPT !.pc = "fetch", !.net = @ + 1]

\* Lines 30-52, the then-callback of getTile(key): a blob is shown as it is,
\* otherwise the tile is fetched.
onLookup(t, found) ==
  IF found
  THEN [t EXCEPT !.pc = "shown", !.src = "blob", !.done = @ + 1]
  ELSE [t EXCEPT !.pc = "fetch", !.net = @ + 1]

\* Lines 53-61, the catch of the getTile promise: the element loads the
\* tile url itself.
onLookupFailed(t) == [t EXCEPT !.pc = "img", !.src = "url", !.net = @ + 1]

\* Lines 47-51: the grey placeholder.
onFetchFailed(t) ==
  [t EXCEPT !.pc = "shown", !.src = "placeholder", !.done = @ + 1]

LayerIdle == layer = [r \in TileRequests |-> NoTile]

\* createTile(coords, done), lines 22-30 and 63: the element is made and the
\* store is asked for its key.
createTile(r, key) ==
  /\ layer[r].pc \in {"none", "shown"}
  /\ layer[r].put # "pending"
  /\ layer' = [layer EXCEPT ![r] = [NoTile EXCEPT !.pc = "getTile",
                                                  !.key = key]]
  /\ UNCHANGED <<storeVars, jobVars, delVars, pureVars>>

\* OfflineTiles.getTile(key) settles for the element.
tileLookupSettles(r, db, err) ==
  /\ layer[r].pc = "getTile"
  /\ db \in getDB(dbPromise)
  /\ dbPromise' = db
  /\ LET t == layer[r]
     IN IF db = "rejected" \/ err
        THEN layer' = [layer EXCEPT
                         ![r] = onLookupFailed([t EXCEPT !.lookup = "failed"])]
        ELSE IF getTile(store, t.key)
             THEN layer' = [layer EXCEPT
                              ![r] = onLookup([t EXCEPT !.lookup = "blob"],
                                              TRUE)]
             ELSE layer' = [layer EXCEPT
                              ![r] = onLookup([t EXCEPT !.lookup = "absent"],
                                              FALSE)]
  /\ UNCHANGED <<store, jobVars, delVars, pureVars>>

\* fetch(url) of line 37 settles; a response that is not ok throws into the
\* catch of line 47, as a rejection does.
tileFetchSettles(r, outcome) ==
  /\ layer[r].pc = "fetch"
  /\ layer' = [layer EXCEPT ![r] = IF outcome = "ok"
                                   THEN [@ EXCEPT !.pc = "blob"]
                                   ELSE onFetchFailed(@)]
  /\ UNCHANGED <<storeVars, jobVars, delVars, pureVars>>

\* response.blob() settles (lines 40-46): the blob is handed to putTile,
\* whose outcome nobody waits for, and shown.
tileBlobSettles(r, ok) ==
  /\ layer[r].pc = "blob"
  /\ layer' = [layer EXCEPT ![r] = IF ok
                                   THEN [@ EXCEPT !.pc = "shown",
                                                  !.src = "blob",
                                                  !.done = @ + 1,
                                                  !.put = "pending"]
                                   ELSE onFetchFailed(@)]
  /\ UNCHANGED <<storeVars, jobVars, delVars, pureVars>>

\* The putTile of line 43 settles; its rejection is swallowed.
tilePutSettles(r, db, err) ==
  /\ layer[r].put = "pending"
  /\ db \in getDB(dbPromise)
  /\ dbPromise' = db
  /\ store' = IF db = "rejected" \/ err THEN store
              ELSE putTile(store, layer[r].key)
  /\ layer' = [layer EXCEPT ![r].put = "settled"]
  /\ UNCHANGED <<jobVars, delVars, pureVars>>

\* The browser finishes loading src = url (lines 55-60): onload calls done;
\* onerror swaps in the placeholder and calls done, with onload still set.
tileImageSettles(r, ok) ==
  /\ layer[r].pc = "img"
  /\ layer' = [layer EXCEPT ![r] = IF ok
                                   THEN [@ EXCEPT !.pc = "shown",
                                                  !.done = @ + 1]
                                   ELSE [@ EXCEPT !.pc = "placeholder",
                                                  !.src = "placeholder",
                                                  !.done = @ + 1]]
  /\ UNCHANGED <<storeVars, jobVars, delVars, pureVars>>

\* The placeholder data URL set by onerror has loaded: onload (line 56) runs.
placeholderLoads(r) ==
  /\ layer[r].pc = "placeholder"
  /\ layer' = [layer EXCEPT ![r] = [@ EXCEPT !.pc = "shown", !.done = @ + 1]]
  /\ UNCHANGED <<storeVars, jobVars, delVars, pureVars>>

\* ------------------------------------------------------ deleteTilesForRoute
\* del.pc: "idle", "cursor" (awaiting the cursor), "returned", "rejected";
\* del.cursor: the keys the cursor has still to visit, in key order;
\* del.value: the value the call resolved with.
NoDelete == [pc |-> "idle", cursor |-> <<>>, deleted |-> 0, value |-> 0]

DelIdle == del = NoDelete

\* A loop body that deletes the record under the cursor and counts it.
visitCursor_Delete(d, st) ==
  [store |-> st \ {Head(d.cursor)}, deleted |-> d.deleted + 1]

\* Lines 307-310: the body of the cursor loop holds a comment only.
visitCursor(d, st) == [store |-> st, deleted |-> d.deleted]

\* deleteTilesForRoute(routeId), lines 301-306: the database, a readwrite
\* transaction, a cursor on the object store.
deleteTilesForRoute(db) ==
  /\ del.pc \in {"idle", "returned", "rejected"}
  /\ db \in getDB(dbPromise)
  /\ dbPromise' = db
  /\ del' = IF db = "rejected"
            THEN [NoDelete EXCEPT !.pc = "rejected"]
            ELSE [NoDelete EXCEPT !.pc = "cursor", !.cursor = SetToSeq(store)]
  /\ UNCHANGED <<store, jobVars, layerVars, pureVars>>

\* One pass of the loop: the body, then `await cursor.continue()`.
cursorContinues ==
  /\ del.pc = "cursor"
  /\ del.cursor # <<>>
  /\ LET v == visitCursor(del, store)
     IN /\ store' = v.store
        /\ del' = [del EXCEPT !.cursor = Tail(@), !.deleted = v.deleted]
  /\ UNCHANGED <<dbPromise, jobVars, layerVars, pureVars>>

\* The cursor is null: `await tx.done; return deleted` (lines 311-312).
deleteReturns ==
  /\ del.pc = "cursor"
  /\ del.cursor = <<>>
  /\ del' = [del EXCEPT !.pc = "returned", !.value = del.deleted]
  /\ UNCHANGED <<storeVars, jobVars, layerVars, pureVars>>

\* putTile(key, blob) called by any other client of OfflineTiles.
putTileCalled(key, db, err) ==
  /\ db \in getDB(dbPromise)
  /\ dbPromise' = db
  /\ store' = IF db = "rejected" \/ err THEN store ELSE putTile(store, key)
  /\ UNCHANGED <<jobVars, layerVars, delVars, pureVars>>

\* --------------------------------------------------------- getTilesForRoute
\* Latitudes and longitudes are integers in hundredths of a degree, so the
\* 0.01 degree margin of lines 330-333 is one unit.  A tile key `z/x/y` is
\* the tuple <<z, x, y>>.
MathMin(a, b) == IF a <= b THEN a ELSE b

MathMax(a, b) == IF a >= b THEN a ELSE b

Pow2(n) == 2 ^ n

\* Line 316: floor((lon + 180) / 360 * 2^zoom).
lon2tile(lon, zoom) == ((lon + 18000) * Pow2(zoom)) \div 36000

\* The expression (1 - ln(tan(latRad) + 1 / cos(latRad)) / PI) / 2 of line
\* 321 for the latitudes of the modelled routes, as floor(value * 2^24).
MercatorBits == 24

mercatorY(lat) ==
  CASE lat = -8999 -> 33345534
    [] lat = -8998 -> 31494708
    [] lat = 5568 -> 5250872
    [] lat = 5569 -> 5250045
    [] lat = 5570 -> 5249218
    [] lat = 5571 -> 5248391
    [] lat = 5572 -> 5247564
    [] lat = 5573 -> 5246736
    [] lat = 5574 -> 5245909
    [] lat = 5575 -> 5245081
    [] lat = 5576 -> 5244252
    [] lat = 8998 -> -14717493
    [] lat = 8999 -> -16568319

\* Line 321: floor(that expression * 2^zoom).
lat2tile(lat, zoom) == mercatorY(lat) \div Pow2(MercatorBits - zoom)

LowZoomMax == 13         \* Math.min(13, zoomMax)
HighZoomMin == 14        \* Math.max(14, zoomMin)
SamplesPerSegment == 500 \* Math.floor(segment.length / 500)

\* The 0.01 of lines 330-333.
margin == 1

\* The rectangle of the box widened by twice the margin.
lowZoomTiles_TwoMargins(bbox, z) ==
  LET xMin == lon2tile(bbox.minLon - 2 * margin, z)
      xMax == lon2tile(bbox.maxLon + 2 * margin, z)
      yMin == lat2tile(bbox.maxLat + 2 * margin, z)
      yMax == lat2tile(bbox.minLat - 2 * margin, z)
  IN {<<z, x, y>> : x \in xMin..xMax, y \in yMin..yMax}

\* Lines 329-339: the rectangle of the bounding box at one low zoom.
lowZoomTiles(bbox, z) ==
  LET xMin == lon2tile(bbox.minLon - margin, z)
      xMax == lon2tile(bbox.maxLon + margin, z)
      yMin == lat2tile(bbox.maxLat + margin, z)
      yMax == lat2tile(bbox.minLat - margin, z)
  IN {<<z, x, y>> : x \in xMin..xMax, y \in yMin..yMax}

\* Line 345: `const buffer = 1`.
buffer == 1

\* A block that reaches one tile further on every side.
blockAround_Wide(point, z) ==
  LET cx == lon2tile(point[2], z)
      cy == lat2tile(point[1], z)
  IN {<<z, cx + dx, cy + dy>> :
        dx \in (-buffer - 1)..(buffer + 1), dy \in (-buffer - 1)..(buffer + 1)}

\* Lines 350-360 and 365-372: the block of tiles around the tile of a point
\* [lat, lon].
blockAround(point, z) ==
  LET cx == lon2tile(point[2], z)
      cy == lat2tile(point[1], z)
  IN {<<z, cx + dx, cy + dy>> : dx \in -buffer..buffer, dy \in -buffer..buffer}

\* Every point sampled.
stride_One(segment) == 1

\* Line 348.
stride(segment) == MathMax(1, Len(segment) \div SamplesPerSegment)

\* The indices i of the loop of line 349, counted from 0 as in the code.
sampledIndices(segment) ==
  {i \in 0..(Len(segment) - 1) : i % stride(segment) = 0}

\* A walk that ends with the last sampled point.
lastPointTiles_None(segment, z) == {}

\* Lines 363-373: "Also include last point".
lastPointTiles(segment, z) ==
  IF Len(segment) > 0 THEN blockAround(segment[Len(segment)], z) ELSE {}

\* Lines 346-373: one segment at one high zoom.
segmentTiles(segment, z) ==
  UNION {blockAround(segment[i + 1], z) : i \in sampledIndices(segment)}
    \cup lastPointTiles(segment, z)

\* Lines 324-378.
getTilesForRoute(rd, zMin, zMax) ==
  UNION {lowZoomTiles(rd.bbox, z) : z \in zMin..MathMin(LowZoomMax, zMax)}
    \cup UNION {segmentTiles(rd.segments[n], z) :
                  n \in DOMAIN rd.segments,
                  z \in MathMax(HighZoomMin, zMin)..zMax}

\* The routes the index is computed for: points on both sides of a tile
\* boundary of zoom 13 in each direction.
SamplePoints == {<<5570, 3762>>, <<5570, 3765>>, <<5574, 3762>>, <<5574, 3765>>}

ShortSegments == UNION {[1..n -> SamplePoints] : n \in 0..MaxPoints}

\* The longest segments walked with a stride of 1, and segments long
\* enough for a stride of 2, with the final index on the stride (odd
\* length) and off it (even length).
\* The second point (index 1 of the code) is off the stride of 2 and lies
\* with the others or tiles away from them.
LongLengths ==
  {2 * SamplesPerSegment - 1, 2 * SamplesPerSegment,
   2 * SamplesPerSegment + 1}

LongSegments ==
  {[i \in 1..n |-> IF i = n THEN last
                   ELSE IF i = 2 THEN second ELSE <<5570, 3762>>] :
     n \in LongLengths, last \in {<<5570, 3762>>, <<5574, 3765>>},
     second \in {<<5570, 3762>>, <<5574, 3765>>}}

\* A point of the westernmost column of tiles at every zoom of ZoomChoices.
EdgePoint == <<5570, -17999>>

SegmentLists ==
  {<<>>} \cup {<<s>> : s \in ShortSegments \cup LongSegments}
         \cup {<<s, t>> : s, t \in [1..1 -> SamplePoints]}
         \cup {<<<<EdgePoint>>>>}

\* The bounding box of a route without points (kml-parser.js line 13).
EmptyBBox == [minLat |-> 9000, maxLat |-> -9000,
              minLon |-> 18000, maxLon |-> -18000]

BBoxes ==
  {EmptyBBox} \cup
  {b \in [minLat : {5570, 5574}, maxLat : {5570, 5574},
          minLon : {3762, 3765}, maxLon : {3762, 3765}] :
     b.minLat <= b.maxLat /\ b.minLon <= b.maxLon}
    \cup {[minLat |-> 5570, maxLat |-> 5570,
           minLon |-> -17999, maxLon |-> -17999]}

ZoomChoices == 12..15

\* getTilesForRoute(routeData, zoomMin, zoomMax) has been called.
TilesCalled ==
  /\ routeData \in [bbox : BBoxes, segments : SegmentLists]
  /\ zoomMin \in ZoomChoices
  /\ zoomMax \in ZoomChoices
  /\ tiles = {}
  /\ tilesPc = "called"

\* Line 377: `return [...tiles]`.
getTilesReturns ==
  /\ tilesPc = "called"
  /\ tiles' = getTilesForRoute(routeData, zoomMin, zoomMax)
  /\ tilesPc' = "returned"
  /\ UNCHANGED <<routeData, zoomMin, zoomMax, nearVars, parseVars, pageVars>>
  /\ UNCHANGED <<storeVars, jobVars, layerVars, delVars>>

\* --------------------------------------------------------- findNearestPoint
\* A route point is [lat, lon, ele], in hundredths of a degree; the array
\* object it is in JavaScript is told apart by its index in routePoints.
\* Distances are whole millimetres.

\* haversine(lat1, lon1, lat2, lon2), lines 210-218, in double precision and
\* cut to millimetres, for the queries and the points of the modelled routes.
haversine(lat1, lon1, lat2, lon2) ==
  CASE <<lat1, lon1>> = <<0, 101>> ->
         (CASE <<lat2, lon2>> = <<0, 0>> -> 112306875
            [] <<lat2, lon2>> = <<0, 100>> -> 1111949
            [] <<lat2, lon2>> = <<0, 200>> -> 110082977
            [] <<lat2, lon2>> = <<100, 100>> -> 111200485)
    [] <<lat1, lon1>> = <<0, 150>> ->
         (CASE <<lat2, lon2>> = <<0, 0>> -> 166792389
            [] <<lat2, lon2>> = <<0, 100>> -> 55597463
            [] <<lat2, lon2>> = <<0, 200>> -> 55597463
            [] <<lat2, lon2>> = <<100, 100>> -> 124318444)
    [] <<lat1, lon1>> = <<0, 100>> ->
         (CASE <<lat2, lon2>> = <<0, 0>> -> 111194926
            [] <<lat2, lon2>> = <<0, 100>> -> 0
            [] <<lat2, lon2>> = <<0, 200>> -> 111194926
            [] <<lat2, lon2>> = <<100, 100>> -> 111194926)
    [] <<lat1, lon1>> = <<50, 100>> ->
         (CASE <<lat2, lon2>> = <<0, 0>> -> 124318444
            [] <<lat2, lon2>> = <<0, 100>> -> 55597463
            [] <<lat2, lon2>> = <<0, 200>> -> 124318444
            [] <<lat2, lon2>> = <<100, 100>> -> 55597463)

\* `Infinity` of line 180: above every distance of the table.
Infinity == 2000000000

\* `null` of line 181, as the index of no point.
NullIndex == -1

SamplesOfRoute == 1000   \* Math.floor(routePoints.length / 1000)

\* A comparison that also takes a point at the same distance.
closer_OrEqual(dist, minDist) == dist <= minDist

\* Lines 187 and 200: `dist < minDist`.
closer(dist, minDist) == dist < minDist

\* Lines 185-190 and 198-203: the body of both loops for the index i;
\* `best` is [minDist, nearestPoint].
examine(points, query, i, best) ==
  LET point == points[i + 1]
      dist == haversine(query[1], query[2], point[1], point[2])
  IN IF closer(dist, best.minDist)
     THEN [minDist |-> dist, nearestPoint |-> i]
     ELSE best

\* The loops of lines 184-191 and 197-204: i from `from` up to `end`
\* (excluded) by `step`.  A loop of several passes is its first half, run
\* to its end, followed by its second half.
RECURSIVE scan(_, _, _, _, _, _)
scan(points, query, from, end, step, best) ==
  LET passes == (end - from + step - 1) \div step
      mid == from + (passes \div 2) * step
      half == scan(points, query, from, mid, step, best)
  IN IF from >= end THEN best
     ELSE IF passes = 1 THEN examine(points, query, from, best)
     ELSE IF half.minDist <= Infinity
          THEN scan(points, query, mid, end, step, half)
          ELSE half

\* A coarse pass that starts at the second point.
coarsePass_SkipFirst(points, query, step) ==
  scan(points, query, 1, Len(points), step,
       [minDist |-> Infinity, nearestPoint |-> NullIndex])

\* Lines 180-191.
coarsePass(points, query, step) ==
  scan(points, query, 0, Len(points), step,
       [minDist |-> Infinity, nearestPoint |-> NullIndex])

\* Lines 193-205: indexOf finds the array object itself, at its own index.
refinePass(points, query, step, best) ==
  IF best.nearestPoint = NullIndex THEN best
  ELSE LET idx == best.nearestPoint
           start == MathMax(0, idx - step)
           end == MathMin(Len(points), idx + step)
       IN scan(points, query, start, end, 1, best)

\* Lines 179-208; `index` tells which array object `point` is.
findNearestPoint(points, query) ==
  LET step == MathMax(1, Len(points) \div SamplesOfRoute)
      best == refinePass(points, query, step, coarsePass(points, query, step))
  IN [point |-> IF best.nearestPoint = NullIndex THEN "null"
                ELSE points[best.nearestPoint + 1],
      distance |-> best.minDist,
      index |-> best.nearestPoint]

\* The points and the GPS positions of the modelled world: three points in
\* a line and one off it; positions next to the middle point, half way
\* between two points, on a point, and at equal distance from two.
LocatorPoints == {<<0, 0, 0>>, <<0, 100, 0>>, <<0, 200, 0>>, <<100, 100, 0>>}

Positions == {<<0, 101>>, <<0, 150>>, <<0, 100>>, <<50, 100>>}

ShortRoutes == UNION {[1..n -> LocatorPoints] : n \in 0..MaxRoutePoints}

\* Routes of 2000 points (stride 2): the first point repeated, but for two
\* points in a row, the first of them on the stride or off it.
LongRoutes ==
  {[i \in 1..(2 * SamplesOfRoute) |->
      IF i = k THEN a ELSE IF i = k + 1 THEN b ELSE <<0, 0, 0>>] :
     k \in {10, 11}, a \in LocatorPoints, b \in LocatorPoints}

\* findNearestPoint(lat, lon) has been called.
NearestCalled ==
  /\ routePoints \in ShortRoutes \cup LongRoutes
  /\ queryPoint \in Positions
  /\ nearest = <<>>
  /\ nearPc = "called"

\* Line 207.
findNearestReturns ==
  /\ nearPc = "called"
  /\ nearest' = findNearestPoint(routePoints, queryPoint)
  /\ nearPc' = "returned"
  /\ UNCHANGED <<routePoints, queryPoint, tilesVars, parseVars, pageVars>>
  /\ UNCHANGED <<storeVars, jobVars, layerVars, delVars>>

\* ---------------------------------------------------------------- KMLParser
\* Numbers are integers in hundredths (37.62 is 3762, 90 is 9000); NaN and
\* undefined are two values of their own, which every comparison answers
\* with false.  A piece of text that is split is the sequence of its parts.
NaN == 2000000001

Undefined == 2000000002

IsNumber(v) == v # NaN /\ v # Undefined

\* The JavaScript comparison a < b.
Less(a, b) == IsNumber(a) /\ IsNumber(b) /\ a < b

\* parseFloat(text), lines 125-127: the longest numeric prefix.
parseFloat(text) ==
  CASE text = "37.62" -> 3762
    [] text = "37.65" -> 3765
    [] text = "55.70" -> 5570
    [] text = "55.74" -> 5574
    [] text = "55.70m" -> 5570
    [] text = "0" -> 0
    [] text = "90" -> 9000
    [] text = "100" -> 10000
    [] text = "110" -> 11000
    [] OTHER -> NaN

\* Number(text), line 137: the whole text must be a number; "" is 0.
Number(text) ==
  CASE text = "37.62" -> 3762
    [] text = "37.65" -> 3765
    [] text = "55.70" -> 5570
    [] text = "55.74" -> 5574
    [] text = "0" -> 0
    [] text = "" -> 0
    [] text = "90" -> 9000
    [] text = "100" -> 10000
    [] text = "110" -> 11000
    [] text = "120" -> 12000
    [] text = "130" -> 13000
    [] OTHER -> NaN

\* coords[i] of an array of texts, from 0: "undefined" past its end.
textAt(coords, i) == IF i < Len(coords) THEN coords[i + 1] ELSE "undefined"

\* parts[i] of an array of numbers, from 0.
numberAt(parts, i) == IF i < Len(parts) THEN parts[i + 1] ELSE Undefined

\* `value || 0`, lines 127 and 140: 0, NaN and undefined are falsy.
orZero(v) == IF IsNumber(v) THEN v ELSE 0

\* parsePoint(placemark, pointEl), lines 115-129; null is <<>>, a POI is
\* <<poi>>.
parsePoint(pointEl) ==
  IF pointEl.coordinates = <<>> THEN <<>>
  ELSE LET coords == pointEl.coordinates[1]
       IN IF Len(coords) < 2 THEN <<>>
          ELSE <<[lon |-> parseFloat(textAt(coords, 0)),
                  lat |-> parseFloat(textAt(coords, 1)),
                  elevation |-> orZero(parseFloat(textAt(coords, 2)))]>>

\* parseCoordinates(lineStringEl), lines 131-143: the text of the
\* coordinates element is the sequence of its triplets, each the sequence
\* of its comma-separated parts.
parseCoordinates(lineStringEl) ==
  IF lineStringEl.coordinates = <<>> THEN <<>>
  ELSE LET coordText == lineStringEl.coordinates[1]
       IN [t \in 1..Len(coordText) |->
             LET parts == [i \in 1..Len(coordText[t]) |->
                             Number(coordText[t][i])]
             IN <<numberAt(parts, 1), numberAt(parts, 0),
                  orZero(numberAt(parts, 2))>>]

\* updateBBox(bbox, lat, lon), lines 189-194.
updateBBox(bbox, lat, lon) ==
  [minLat |-> IF Less(lat, bbox.minLat) THEN lat ELSE bbox.minLat,
   maxLat |-> IF Less(bbox.maxLat, lat) THEN lat ELSE bbox.maxLat,
   minLon |-> IF Less(lon, bbox.minLon) THEN lon ELSE bbox.minLon,
   maxLon |-> IF Less(bbox.maxLon, lon) THEN lon ELSE bbox.maxLon]

\* Lines 53-55 and 62-64: updateBBox for the points of a segment from the
\* i-th on.
RECURSIVE updateBBoxAlong(_, _, _)
updateBBoxAlong(bbox, segment, i) ==
  IF i > Len(segment) THEN bbox
  ELSE updateBBoxAlong(updateBBox(bbox, segment[i][1], segment[i][2]),
                       segment, i + 1)

\* Lines 50-56 and 59-65: one LineString.
addLineString(res, lineStringEl) ==
  LET segment == parseCoordinates(lineStringEl)
  IN IF Len(segment) > 0
     THEN [res EXCEPT !.segments = Append(@, segment),
                         !.bbox = updateBBoxAlong(@, segment, 1)]
     ELSE res

\* Lines 48-57: the LineStrings of a MultiGeometry from the i-th on.
RECURSIVE addLineStrings(_, _, _)
addLineStrings(res, lineStrings, i) ==
  IF i > Len(lineStrings) THEN res
  ELSE addLineStrings(addLineString(res, lineStrings[i]), lineStrings,
                      i + 1)

\* A Placemark whose lines are read although it has a Point.
addPlacemark_Both(res, pm) ==
  LET withPoi ==
        IF pm.point # <<>> /\ parsePoint(pm.point[1]) # <<>>
        THEN LET poi == parsePoint(pm.point[1])
             IN [res EXCEPT !.pois = Append(@, poi[1]),
                            !.bbox = updateBBox(@, poi[1].lat, poi[1].lon)]
        ELSE res
  IN IF pm.multiGeo # <<>>
     THEN addLineStrings(withPoi, pm.multiGeo[1], 1)
     ELSE IF pm.lineString # <<>>
     THEN addLineString(withPoi, pm.lineString[1])
     ELSE withPoi

\* Lines 37-66: one Placemark; pm.point, pm.multiGeo and pm.lineString are
\* <<>> where the element is missing and <<element>> where it is found.
addPlacemark(res, pm) ==
  IF pm.point # <<>>
  THEN LET poi == parsePoint(pm.point[1])
       IN IF poi # <<>>
          THEN [res EXCEPT !.pois = Append(@, poi[1]),
                              !.bbox = updateBBox(@, poi[1].lat, poi[1].lon)]
          ELSE res
  ELSE IF pm.multiGeo # <<>>
  THEN addLineStrings(res, pm.multiGeo[1], 1)
  ELSE IF pm.lineString # <<>>
  THEN addLineString(res, pm.lineString[1])
  ELSE res

\* Lines 36-67: the Placemarks from the i-th on.
RECURSIVE addPlacemarks(_, _, _)
addPlacemarks(res, placemarks, i) ==
  IF i > Len(placemarks) THEN res
  ELSE addPlacemarks(addPlacemark(res, placemarks[i]), placemarks, i + 1)

\* haversineKm(lat1, lon1, lat2, lon2), lines 95-103, in whole metres, for
\* the points of the modelled documents; NaN where an argument is no number.
haversineKm(lat1, lon1, lat2, lon2) ==
  IF ~(IsNumber(lat1) /\ IsNumber(lon1) /\ IsNumber(lat2) /\ IsNumber(lon2))
  THEN NaN
  ELSE IF lat1 = lat2 /\ lon1 = lon2 THEN 0
  ELSE CASE {<<lat1, lon1>>, <<lat2, lon2>>}
              = {<<5570, 3762>>, <<5574, 3765>>} -> 4828

\* The JavaScript sum a + b.
plus(a, b) == IF IsNumber(a) /\ IsNumber(b) THEN a + b ELSE NaN

\* Lines 72-74: the steps of one segment from the i-th point on, added to
\* trackKm.
RECURSIVE alongSegment(_, _, _)
alongSegment(trackKm, seg, i) ==
  IF i > Len(seg) THEN trackKm
  ELSE alongSegment(plus(trackKm, haversineKm(seg[i - 1][1], seg[i - 1][2],
                                              seg[i][1], seg[i][2])),
                    seg, i + 1)

\* Lines 70-75: the segments from the n-th on.
RECURSIVE alongSegments(_, _, _)
alongSegments(trackKm, segments, n) ==
  IF n > Len(segments) THEN trackKm
  ELSE alongSegments(alongSegment(trackKm, segments[n], 2), segments, n + 1)

\* The step from the first segment to the second counted as well.
trackLength_Joined(segments) ==
  LET within == alongSegments(0, segments, 1)
  IN IF Len(segments) >= 2
     THEN LET a == segments[1][Len(segments[1])]
              b == segments[2][1]
          IN plus(within, haversineKm(a[1], a[2], b[1], b[2]))
     ELSE within

\* Lines 70-75: trackKm after the loops.
trackLength(segments) == alongSegments(0, segments, 1)

\* Line 76: `trackKm > 0`.
trackPresent(trackKm) == Less(0, trackKm)

\* A span computed for every bounding box.
spanPresent_Always(bb) == TRUE

\* Line 82: `bb.minLat < 90`.
spanPresent(bb) == Less(bb.minLat, 9000)

\* Line 156: the elevations of a segment that are truthy.
elevationsOf(seg) ==
  SelectSeq([i \in 1..Len(seg) |-> seg[i][3]], LAMBDA e : orZero(e) # 0)

ElevationKeys == {"elevation_min_m", "elevation_max_m", "climb_m", "descent_m"}

\* Line 146.
WINDOW == 5

\* Line 147.
HALF == WINDOW \div 2

\* Numbers of the documents are kept in hundredths; the means of line 171
\* are kept in 60ths of that, a multiple of every window length.
PerUnit == 100
PerMean == 60

\* Line 77: trackKm is kept in metres, track_km in tenths of a kilometre.
PerTenth == 100

\* Math.round of x / unit: the nearest integer, a half rounded up.
MathRound(x, unit) == (2 * x + unit) \div (2 * unit)

\* Lines 167-170: eles[j] + ... + eles[end], indices from 0.
RECURSIVE windowSum(_, _, _)
windowSum(eles, j, end) ==
  IF j > end THEN 0 ELSE eles[j + 1] + windowSum(eles, j + 1, end)

\* Lines 164-172: smoothed[i], i from 0.
smoothedAt(eles, i) ==
  LET s == MathMax(0, i - HALF)
      end == MathMin(Len(eles) - 1, i + HALF)
  IN (windowSum(eles, s, end) * PerMean) \div (end - s + 1)

\* Lines 164-172: the moving average of a segment's elevations.
smoothed(eles) == [k \in 1..Len(eles) |-> smoothedAt(eles, k - 1)]

\* Lines 174-178: climb and descent along the smoothed elevations, from the
\* i-th (from 0) on.
RECURSIVE climbAlong(_, _, _)
climbAlong(acc, sm, i) ==
  IF i >= Len(sm) THEN acc
  ELSE LET diff == sm[i + 1] - sm[i]
       IN climbAlong(IF diff > 0 THEN [acc EXCEPT !.climb = @ + diff]
                     ELSE [acc EXCEPT !.descent = @ - diff], sm, i + 1)

\* A segment with one elevation counted as well.
addElevations_FromOne(acc, seg) ==
  LET eles == elevationsOf(seg)
  IN IF Len(eles) < 1 THEN acc
     ELSE climbAlong(
            [acc EXCEPT !.hasEle = TRUE,
                        !.minEle = Min(Range(eles) \cup {@}),
                        !.maxEle = -Min({-e : e \in Range(eles)} \cup {-@})],
            smoothed(eles), 1)

\* Lines 155-178: one segment.
addElevations(acc, seg) ==
  LET eles == elevationsOf(seg)
  IN IF Len(eles) < 2 THEN acc
     ELSE climbAlong(
            [acc EXCEPT !.hasEle = TRUE,
                        !.minEle = Min(Range(eles) \cup {@}),
                        !.maxEle = -Min({-e : e \in Range(eles)} \cup {-@})],
            smoothed(eles), 1)

\* Lines 155-179: the segments from the n-th on.
RECURSIVE elevationsAlong(_, _, _)
elevationsAlong(acc, segments, n) ==
  IF n > Len(segments) THEN acc
  ELSE elevationsAlong(addElevations(acc, segments[n]), segments, n + 1)

\* calcElevationStats(segments), lines 145-187: the object returned, a
\* function of its keys, the values in metres.
calcElevationStats(segments) ==
  LET acc == elevationsAlong([climb |-> 0, descent |-> 0,
                              minEle |-> Infinity, maxEle |-> -Infinity,
                              hasEle |-> FALSE], segments, 1)
  IN IF ~acc.hasEle THEN [k \in {} |-> 0]
     ELSE [k \in ElevationKeys |->
             CASE k = "elevation_min_m" -> MathRound(acc.minEle, PerUnit)
               [] k = "elevation_max_m" -> MathRound(acc.maxEle, PerUnit)
               [] k = "climb_m" -> MathRound(acc.climb, PerUnit * PerMean)
               [] k = "descent_m" ->
                    MathRound(acc.descent, PerUnit * PerMean)]

\* parse(kmlString), lines 8-93, for a document that is well formed and has
\* a Document element: `placemarks` is the list of line 34.  stats is the
\* set of the keys of result.stats; values gives track_km in tenths of a
\* kilometre and the elevation keys in metres.
parse(placemarks) ==
  LET res == addPlacemarks([pois |-> <<>>, segments |-> <<>>,
                            bbox |-> EmptyBBox], placemarks, 1)
      trackKm == trackLength(res.segments)
      track == IF trackPresent(trackKm)
               THEN [k \in {"track_km"} |-> MathRound(trackKm, PerTenth)]
               ELSE [k \in {} |-> 0]
      elevation == calcElevationStats(res.segments)
  IN [pois |-> res.pois, segments |-> res.segments, bbox |-> res.bbox,
      stats |-> DOMAIN track
                  \cup (IF spanPresent(res.bbox) THEN {"span_km"} ELSE {})
                  \cup DOMAIN elevation,
      values |-> [k \in DOMAIN track \cup DOMAIN elevation |->
                    IF k \in DOMAIN track THEN track[k] ELSE elevation[k]]]

\* The elements of the modelled documents.
PointTexts ==
  {<<"37.62">>, <<"37.62", "55.70">>, <<"0", "90">>, <<"abc", "def">>,
   <<"37.65", "55.74", "110">>, <<"37.62", "55.70m">>}

Points == {[coordinates |-> <<>>]} \cup
          {[coordinates |-> <<text>>] : text \in PointTexts}

TrackText == <<<<"37.62", "55.70", "100">>, <<"37.65", "55.74", "110">>>>

LineTexts ==
  {<<>>, TrackText, <<<<"37.62">>>>, <<<<"37.65", "55.74">>>>,
   <<<<"37.62", "55.70m">>>>, <<<<"37.62", "55.70">>>>,
   <<<<"37.62", "55.70">>, <<"37.62", "55.70m">>>>}

LineStrings == {[coordinates |-> <<>>]} \cup
               {[coordinates |-> <<text>>] : text \in LineTexts}

Placemarks ==
  {[point |-> <<>>, multiGeo |-> <<>>, lineString |-> <<>>]}
    \cup {[point |-> <<pt>>, multiGeo |-> <<>>, lineString |-> <<>>] :
            pt \in Points}
    \cup {[point |-> <<>>, multiGeo |-> <<>>, lineString |-> <<ls>>] :
            ls \in LineStrings}
    \cup {[point |-> <<>>, multiGeo |-> <<lss>>, lineString |-> <<>>] :
            lss \in {<<>>, <<[coordinates |-> <<TrackText>>],
                             [coordinates |-> <<<<<<"37.65", "55.74">>>>>>]>>}}
    \cup {[point |-> <<[coordinates |-> <<<<"37.62", "55.70">>>>]>>,
           multiGeo |-> <<>>,
           lineString |-> <<[coordinates |-> <<TrackText>>]>>]}
    \cup {[point |-> <<pt>>,
           multiGeo |-> <<<<[coordinates |-> <<TrackText>>]>>>>,
           lineString |-> <<[coordinates |-> <<TrackText>>]>>] :
            pt \in {[coordinates |-> <<>>],
                    [coordinates |-> <<<<"37.65", "55.74">>>>]}}
    \cup {[point |-> <<>>,
           multiGeo |-> <<<<[coordinates |-> <<TrackText>>],
                            [coordinates |-> <<<<>>>>],
                            [coordinates |-> <<<<<<"37.65", "55.74">>>>>>]>>>>,
           lineString |-> <<[coordinates |-> <<<<<<"37.62", "55.70">>>>>>]>>]}

\* The elevations of a line that climbs, descends or, up to three points,
\* does either.
ElevationTexts == {"0", "90", "100", "110", "120", "130"}

Climbs(texts) ==
  \A i \in 1..(Len(texts) - 1) : Number(texts[i]) <= Number(texts[i + 1])

Descends(texts) ==
  \A i \in 1..(Len(texts) - 1) : Number(texts[i]) >= Number(texts[i + 1])

ElevationLines ==
  UNION {{texts \in [1..n -> ElevationTexts] :
            n <= 3 \/ Climbs(texts) \/ Descends(texts)} :
         n \in 1..MaxElevations}

ElevationPlacemarks ==
  {[point |-> <<>>, multiGeo |-> <<>>,
    lineString |-> <<[coordinates |->
                        <<[i \in 1..Len(texts) |->
                             <<"37.62", "55.70", texts[i]>>]>>]>>] :
     texts \in ElevationLines}

Documents ==
  UNION {[1..n -> Placemarks] : n \in 0..MaxPlacemarks}
    \cup {<<pm>> : pm \in ElevationPlacemarks}

\* parse(kmlString) has been called.
ParseCalled ==
  /\ kmlDoc \in Documents
  /\ parsed = <<>>
  /\ parsePc = "called"

\* Line 92: `return result`.
parseReturns ==
  /\ parsePc = "called"
  /\ parsed' = parse(kmlDoc)
  /\ parsePc' = "returned"
  /\ UNCHANGED <<kmlDoc, tilesVars, nearVars, pageVars>>
  /\ UNCHANGED <<storeVars, jobVars, layerVars, delVars>>

\* ------------------------------------------------- cache-status requests
\* part_002 lines 388 and 405: the delays of the two setTimeout calls.
CheckTimeout == 2000
CacheTimeout == 10000

\* The grain of the time that passes between two steps.
TickMs == 500

NoRequest == [kind |-> "none", state |-> "idle", value |-> FALSE,
              resolves |-> <<>>]

NoHandler == [pc |-> "idle", type |-> "none", found |-> FALSE,
              stored |-> FALSE]

\* resolve(v) of a promise executor written with every value.
resolve_Last(req, by, v) ==
  [req EXCEPT !.state = "resolved", !.value = v,
              !.resolves = Append(@, [by |-> by, value |-> v])]

\* resolve(v) of a promise executor: the first call settles the promise,
\* a later call has no effect; `resolves` records every call.
resolve(req, by, v) ==
  [req EXCEPT !.state = "resolved",
              !.value = IF req.state = "pending" THEN v ELSE @,
              !.resolves = Append(@, [by |-> by, value |-> v])]

\* `e.data?.payload?.<name> || false`, part_002 lines 387 and 404.
payloadOrFalse(data, name) ==
  IF name \in DOMAIN data.payload THEN data.payload[name] ELSE FALSE

\* Lines 382-384 and 399-401 when there is no controller, lines 385-393
\* and 402-410 when there is one.
ask(kind, type, controller) ==
  /\ request.state = "idle"
  /\ IF ~controller
     THEN /\ request' = [kind |-> kind, state |-> "resolved",
                         value |-> FALSE,
                         resolves |-> <<[by |-> "noController",
                                         value |-> FALSE]>>]
          /\ UNCHANGED <<timer, handler>>
     ELSE /\ request' = [NoRequest EXCEPT !.kind = kind,
                                          !.state = "pending"]
          /\ timer' = "armed"
          /\ handler' = [NoHandler EXCEPT !.pc = "posted", !.type = type]
  /\ UNCHANGED <<elapsed, port1>>
  /\ UNCHANGED <<storeVars, jobVars, layerVars, delVars>>
  /\ UNCHANGED <<tilesVars, nearVars, parseVars, catalogVars, deviceVars>>

\* isKmlCached(filename), part_002 lines 381-395.
isKmlCached(controller) == ask("check", "CHECK_ROUTE_CACHED", controller)

\* cacheKmlFile(filename), part_002 lines 398-412.
cacheKmlFile(controller) == ask("cache", "CACHE_ROUTE", controller)

timeoutOf(kind) == IF kind = "check" THEN CheckTimeout ELSE CacheTimeout

answerOf(kind) == IF kind = "check" THEN "cached" ELSE "success"

\* Time passes while the timer is pending.
timePasses ==
  /\ timer = "armed"
  /\ elapsed < timeoutOf(request.kind)
  /\ elapsed' = elapsed + TickMs
  /\ UNCHANGED <<request, timer, port1, handler>>
  /\ UNCHANGED <<storeVars, jobVars, layerVars, delVars>>
  /\ UNCHANGED <<tilesVars, nearVars, parseVars, catalogVars, deviceVars>>

\* The callback of setTimeout, lines 388 and 405: not before its delay.
timeoutFires ==
  /\ timer = "armed"
  /\ elapsed >= timeoutOf(request.kind)
  /\ timer' = "fired"
  /\ request' = resolve(request, "timeout", FALSE)
  /\ UNCHANGED <<elapsed, port1, handler>>
  /\ UNCHANGED <<storeVars, jobVars, layerVars, delVars>>
  /\ UNCHANGED <<tilesVars, nearVars, parseVars, catalogVars, deviceVars>>

\* ch.port1.onmessage, lines 387 and 404.
messageArrives ==
  /\ port1 # <<>>
  /\ request' = resolve(request, "reply",
                        payloadOrFalse(Head(port1), answerOf(request.kind)))
  /\ port1' = Tail(port1)
  /\ UNCHANGED <<timer, elapsed, handler>>
  /\ UNCHANGED <<storeVars, jobVars, layerVars, delVars>>
  /\ UNCHANGED <<tilesVars, nearVars, parseVars, catalogVars, deviceVars>>

\* reply(data), sw.js lines 173-176, the client having passed a port.
reply(h, data) ==
  /\ handler' = [h EXCEPT !.pc = "replied"]
  /\ port1' = Append(port1, data)

\* The handler of "message", sw.js lines 169-218, up to its first await:
\* `caches.open(ROUTES_CACHE)` of line 181 or 194.
onMessage ==
  /\ handler.pc = "posted"
  /\ handler' = [handler EXCEPT !.pc = "open"]
  /\ UNCHANGED <<request, timer, elapsed, port1>>
  /\ UNCHANGED <<storeVars, jobVars, layerVars, delVars>>
  /\ UNCHANGED <<tilesVars, nearVars, parseVars, catalogVars, deviceVars>>

\* caches.open settles, lines 181 and 194; a rejection is caught in the
\* CACHE_ROUTE branch only (line 207).
cachesOpenSettles(ok) ==
  /\ handler.pc = "open"
  /\ IF ok
     THEN /\ handler' = [handler EXCEPT
                           !.pc = IF handler.type = "CHECK_ROUTE_CACHED"
                                  THEN "match" ELSE "fetch"]
          /\ UNCHANGED port1
     ELSE IF handler.type = "CHECK_ROUTE_CACHED"
     THEN /\ handler' = [handler EXCEPT !.pc = "rejected"]
          /\ UNCHANGED port1
     ELSE reply(handler, [type |-> "ROUTE_CACHED",
                          payload |-> [success |-> FALSE]])
  /\ UNCHANGED <<request, timer, elapsed>>
  /\ UNCHANGED <<storeVars, jobVars, layerVars, delVars>>
  /\ UNCHANGED <<tilesVars, nearVars, parseVars, catalogVars, deviceVars>>

\* cache.match(payload.url) settles, lines 182-186.
matchSettles(outcome) ==
  /\ handler.pc = "match"
  /\ IF outcome = "rejects"
     THEN /\ handler' = [handler EXCEPT !.pc = "rejected"]
          /\ UNCHANGED port1
     ELSE reply([handler EXCEPT !.found = (outcome = "found")],
                [type |-> "ROUTE_CACHE_STATUS",
                 payload |-> [cached |-> (outcome = "found")]])
  /\ UNCHANGED <<request, timer, elapsed>>
  /\ UNCHANGED <<storeVars, jobVars, layerVars, delVars>>
  /\ UNCHANGED <<tilesVars, nearVars, parseVars, catalogVars, deviceVars>>

\* fetch(payload.url) settles, lines 195-206 and 207-212.
routeFetchSettles(outcome) ==
  /\ handler.pc = "fetch"
  /\ IF outcome = "ok"
     THEN /\ handler' = [handler EXCEPT !.pc = "put"]
          /\ UNCHANGED port1
     ELSE reply(handler, [type |-> "ROUTE_CACHED",
                          payload |-> [success |-> FALSE]])
  /\ UNCHANGED <<request, timer, elapsed>>
  /\ UNCHANGED <<storeVars, jobVars, layerVars, delVars>>
  /\ UNCHANGED <<tilesVars, nearVars, parseVars, catalogVars, deviceVars>>

\* cache.put(payload.url, response) settles, lines 197-201 and 207-212.
cachePutSettles(ok) ==
  /\ handler.pc = "put"
  /\ reply([handler EXCEPT !.stored = ok],
           [type |-> "ROUTE_CACHED", payload |-> [success |-> ok]])
  /\ UNCHANGED <<request, timer, elapsed>>
  /\ UNCHANGED <<storeVars, jobVars, layerVars, delVars>>
  /\ UNCHANGED <<tilesVars, nearVars, parseVars, catalogVars, deviceVars>>

\* ------------------------------------------------------------ the catalog
\* part_003 line 8.
CACHE_TTL == 24 * 60 * 60 * 1000

\* The grain of Date.now(): half a day.
HalfDay == CACHE_TTL \div 2

\* The documents routes/index.json can be; one has no `sections`.
CatalogData ==
  {[sections |-> <<"r1">>], [sections |-> <<"r1", "r2">>],
   [sections |-> <<>>], [generated |-> "today"]}

\* `data.sections || []`, lines 64 and 77.
sectionsOf(data) ==
  IF "sections" \in DOMAIN data THEN data.sections ELSE <<>>

\* getCachedCatalog(), lines 29-39, of an item saved by setCachedCatalog:
\* null is <<>>, an array `sections` is <<sections>>.
getCachedCatalog(item, t) ==
  IF item = <<>> THEN <<>>
  ELSE IF t - item[1].timestamp > CACHE_TTL THEN <<>>
  ELSE <<item[1].sections>>

\* setCachedCatalog(sections), lines 41-53; setItem may throw, and then
\* nothing is saved.
setCachedCatalog(sections, saved) ==
  localStorage' = IF saved
                  THEN <<[timestamp |-> now, sections |-> sections]>>
                  ELSE localStorage

NoCatalog == [pc |-> "idle", item |-> <<>>, cached |-> <<>>,
              onUpdate |-> FALSE, failed |-> FALSE, result |-> <<>>]

\* loadCatalog(onUpdate), lines 55-72, up to its return or first await.
loadCatalog(onUpdate) ==
  /\ catalog.pc \in {"idle", "returned", "rejected"}
  /\ refresh = "idle"
  /\ LET found == getCachedCatalog(localStorage, now)
         call == [NoCatalog EXCEPT !.item = localStorage,
                                   !.cached = found,
                                   !.onUpdate = onUpdate]
     IN IF found # <<>> /\ onUpdate
        THEN /\ refresh' = "fetch"
             /\ catalog' = [call EXCEPT !.pc = "returned",
                                        !.result = found]
        ELSE /\ catalog' = [call EXCEPT !.pc = "fetch"]
             /\ UNCHANGED refresh
  /\ UNCHANGED <<localStorage, now>>
  /\ UNCHANGED <<storeVars, jobVars, layerVars, delVars>>
  /\ UNCHANGED <<tilesVars, nearVars, parseVars, statusVars, deviceVars>>

\* Lines 79-83: the catch block, e.message being `message`.
catalogFailed(message) ==
  catalog' = IF catalog.cached # <<>>
             THEN [catalog EXCEPT !.pc = "returned", !.failed = TRUE,
                                  !.result = catalog.cached]
             ELSE [catalog EXCEPT !.pc = "rejected", !.failed = TRUE,
                                  !.result = <<message>>]

\* fetch("routes/index.json") settles, lines 74-75.
catalogFetchSettles(outcome) ==
  /\ catalog.pc = "fetch"
  /\ IF outcome = "ok"
     THEN catalog' = [catalog EXCEPT !.pc = "json"]
     ELSE catalogFailed(IF outcome = "notOk" THEN "HTTP" ELSE "fetch")
  /\ UNCHANGED <<localStorage, now, refresh>>
  /\ UNCHANGED <<storeVars, jobVars, layerVars, delVars>>
  /\ UNCHANGED <<tilesVars, nearVars, parseVars, statusVars, deviceVars>>

\* response.json() is fulfilled, lines 76-79.
catalogJsonSettles(data, saved) ==
  /\ catalog.pc = "json"
  /\ setCachedCatalog(sectionsOf(data), saved)
  /\ catalog' = [catalog EXCEPT !.pc = "returned",
                                !.result = <<sectionsOf(data)>>]
  /\ UNCHANGED <<now, refresh>>
  /\ UNCHANGED <<storeVars, jobVars, layerVars, delVars>>
  /\ UNCHANGED <<tilesVars, nearVars, parseVars, statusVars, deviceVars>>

\* response.json() is rejected, lines 76 and 79-83.
catalogJsonFails ==
  /\ catalog.pc = "json"
  /\ catalogFailed("json")
  /\ UNCHANGED <<localStorage, now, refresh>>
  /\ UNCHANGED <<storeVars, jobVars, layerVars, delVars>>
  /\ UNCHANGED <<tilesVars, nearVars, parseVars, statusVars, deviceVars>>

\* The fetch of the background settles, lines 60-61 and 69.
refreshFetchSettles(outcome) ==
  /\ refresh = "fetch"
  /\ refresh' = IF outcome = "ok" THEN "json" ELSE "idle"
  /\ UNCHANGED <<localStorage, now, catalog>>
  /\ UNCHANGED <<storeVars, jobVars, layerVars, delVars>>
  /\ UNCHANGED <<tilesVars, nearVars, parseVars, statusVars, deviceVars>>

\* r.json() of the background settles, lines 62-68; its rejection is
\* swallowed by line 69.
refreshJsonSettles(ok, data, saved) ==
  /\ refresh = "json"
  /\ refresh' = "idle"
  /\ setCachedCatalog(sectionsOf(data), ok /\ saved)
  /\ UNCHANGED <<now, catalog>>
  /\ UNCHANGED <<storeVars, jobVars, layerVars, delVars>>
  /\ UNCHANGED <<tilesVars, nearVars, parseVars, statusVars, deviceVars>>

\* Half a day passes.
halfDayPasses ==
  /\ now < MaxHalfDays * HalfDay
  /\ now' = now + HalfDay
  /\ UNCHANGED <<localStorage, catalog, refresh>>
  /\ UNCHANGED <<storeVars, jobVars, layerVars, delVars>>
  /\ UNCHANGED <<tilesVars, nearVars, parseVars, statusVars, deviceVars>>

\* ------------------------------------------------------------ networkFirst
\* One fetch event for a route resource (sw.js lines 117-140), answered by
\* networkFirst(request, ROUTES_CACHE), lines 158-166.
\*   pc        "idle", "fetch", "open" (caches.open pending), "put"
\*             (cache.put pending), "match" (caches.match pending),
\*             "answered"
\*   response  the status of the network response, 0 before it arrives
\*   answer    the status of the response handed to respondWith; 0 before
\*             that and when caches.match found nothing
NoFetchEvent == [pc |-> "idle", response |-> 0, answer |-> 0]

FetchEvents == 1..MaxFetchEvents

\* The statuses the server answers with.
Statuses == {200, 404, 503}

\* Response.ok.
isOk(status) == status >= 200 /\ status <= 299

\* Lines 160-164, the then-callback of fetch: the response is cloned, the
\* clone is handed to caches.open(...).then(put), which nobody waits for,
\* and the response is returned.
networkResponds(ev, status) ==
  [ev EXCEPT !.pc = "open", !.response = status, !.answer = status]

\* A fetch event for the url reaches the handler: line 159, fetch(request).
onFetch(e) ==
  /\ fetchEvents[e].pc \in {"idle", "answered"}
  /\ fetchEvents' = [fetchEvents EXCEPT ![e] = [NoFetchEvent EXCEPT
                                                  !.pc = "fetch"]]
  /\ UNCHANGED routesCache
  /\ UNCHANGED <<storeVars, jobVars, layerVars, delVars>>
  /\ UNCHANGED <<tilesVars, nearVars, parseVars, statusVars, catalogVars, gpsVars,
                 uiVars>>

\* fetch(request) settles with a response of any status (line 160).
networkSettles(e, status) ==
  /\ fetchEvents[e].pc = "fetch"
  /\ fetchEvents' = [fetchEvents EXCEPT ![e] = networkResponds(@, status)]
  /\ UNCHANGED routesCache
  /\ UNCHANGED <<storeVars, jobVars, layerVars, delVars>>
  /\ UNCHANGED <<tilesVars, nearVars, parseVars, statusVars, catalogVars, gpsVars,
                 uiVars>>

\* fetch(request) rejects, the device being offline: line 165,
\* caches.match(request).
networkFails(e) ==
  /\ fetchEvents[e].pc = "fetch"
  /\ fetchEvents' = [fetchEvents EXCEPT ![e].pc = "match"]
  /\ UNCHANGED routesCache
  /\ UNCHANGED <<storeVars, jobVars, layerVars, delVars>>
  /\ UNCHANGED <<tilesVars, nearVars, parseVars, statusVars, catalogVars, gpsVars,
                 uiVars>>

\* caches.open(cacheName) of line 162 settles; its rejection is nobody's.
routesCacheOpens(e, opened) ==
  /\ fetchEvents[e].pc = "open"
  /\ fetchEvents' = [fetchEvents EXCEPT
                       ![e].pc = IF opened THEN "put" ELSE "answered"]
  /\ UNCHANGED routesCache
  /\ UNCHANGED <<storeVars, jobVars, layerVars, delVars>>
  /\ UNCHANGED <<tilesVars, nearVars, parseVars, statusVars, catalogVars, gpsVars,
                 uiVars>>

\* cache.put(request, clone) of line 162 settles: the entry of the url is
\* the clone, unless the put rejects.
routePutSettles(e, stored) ==
  /\ fetchEvents[e].pc = "put"
  /\ routesCache' = IF stored THEN fetchEvents[e].response ELSE routesCache
  /\ fetchEvents' = [fetchEvents EXCEPT ![e].pc = "answered"]
  /\ UNCHANGED <<storeVars, jobVars, layerVars, delVars>>
  /\ UNCHANGED <<tilesVars, nearVars, parseVars, statusVars, catalogVars, gpsVars,
                 uiVars>>

\* caches.match(request) of line 165 settles with the entry or undefined.
routeMatchSettles(e) ==
  /\ fetchEvents[e].pc = "match"
  /\ fetchEvents' = [fetchEvents EXCEPT ![e].pc = "answered",
                                        ![e].answer = routesCache]
  /\ UNCHANGED routesCache
  /\ UNCHANGED <<storeVars, jobVars, layerVars, delVars>>
  /\ UNCHANGED <<tilesVars, nearVars, parseVars, statusVars, catalogVars, gpsVars,
                 uiVars>>

\* --------------------------------------------------------------- GPSTracker
\* device.platform: "ios" (DeviceOrientationEvent.requestPermission is a
\* function), "default" (DeviceOrientationEvent is defined), "none";
\* device.wakeLock: 'wakeLock' in navigator.
\* gps:
\*   gpsStarted          part_002 line 557
\*   clicks              the runs of the click handler: [pc, n], pc one of
\*                       "idle", "permission" (the await of line 564),
\*                       "wakeLock" (line 40), "compass" (line 107),
\*                       "done"; n numbers the run's start() call
\*   starts              start() calls made so far
\*   watchId             part_001 line 8: 0 for null, or the id of a watch
\*   orientationHandler  line 16: 0 for null, or the handler made by the
\*                       n-th setupCompass
\*   wakeLock, isTracking  lines 9 and 12
\*   watches             the geolocation watches that are registered
\*   listeners           the orientation listeners registered on window:
\*                       [type, listener, capture]
ClickHandlers == 1..MaxClickHandlers

NoGps == [gpsStarted |-> FALSE,
          clicks |-> [c \in ClickHandlers |-> [pc |-> "idle", n |-> 0]],
          starts |-> 0, watchId |-> 0, orientationHandler |-> 0,
          wakeLock |-> FALSE, isTracking |-> FALSE,
          watches |-> {}, listeners |-> {}]

Devices == [platform : {"ios", "default", "none"}, wakeLock : BOOLEAN]

\* window.addEventListener(type, listener, capture).
addEventListener(listeners, type, listener, capture) ==
  listeners \cup {[type |-> type, listener |-> listener, capture |-> capture]}

\* window.removeEventListener(type, listener, capture): the listener
\* registered with this type, this function and this capture flag.
removeEventListener(listeners, type, listener, capture) ==
  listeners \ {[type |-> type, listener |-> listener, capture |-> capture]}

\* part_001 lines 72-81 and part_002 lines 591-595: the watch is
\* registered, start() returns and the click handler goes on.
watchPosition(g, c) ==
  [g EXCEPT !.watches = @ \cup {g.clicks[c].n},
            !.watchId = g.clicks[c].n,
            !.isTracking = TRUE,
            !.gpsStarted = TRUE,
            !.clicks[c].pc = "done"]

\* Lines 103-118 of setupCompass, up to its await.
setupCompass(g, c, dev) ==
  IF dev.platform = "ios"
  THEN [g EXCEPT !.clicks[c].pc = "compass"]
  ELSE IF dev.platform = "default"
  THEN watchPosition(
         [g EXCEPT !.orientationHandler = g.clicks[c].n,
                   !.listeners = addEventListener(
                      addEventListener(@, "deviceorientationabsolute",
                                       g.clicks[c].n, TRUE),
                      "deviceorientation", g.clicks[c].n, TRUE)], c)
  ELSE watchPosition(g, c)

\* part_002 lines 566-590 and part_001 lines 32-45: init, and start() up to
\* its first await.
start(g, c, dev) ==
  LET g1 == [g EXCEPT !.starts = @ + 1, !.clicks[c].n = g.starts + 1]
  IN IF dev.wakeLock
     THEN [g1 EXCEPT !.clicks[c].pc = "wakeLock"]
     ELSE setupCompass(g1, c, dev)

\* part_001 lines 220-244 and part_002 lines 600-601.
stop(g) ==
  [g EXCEPT
     !.watches = IF g.watchId # 0 THEN @ \ {g.watchId} ELSE @,
     !.watchId = 0,
     !.wakeLock = FALSE,
     !.listeners =
        IF g.orientationHandler # 0
        THEN removeEventListener(
               removeEventListener(@, "deviceorientationabsolute",
                                   g.orientationHandler, TRUE),
               "deviceorientation", g.orientationHandler, TRUE)
        ELSE @,
     !.orientationHandler = 0,
     !.isTracking = FALSE,
     !.gpsStarted = FALSE]

\* A click on the navigation button, part_002 lines 559-603, up to the first
\* await of the handler.
click(c) ==
  /\ gps.clicks[c].pc \in {"idle", "done"}
  /\ IF gps.gpsStarted
     THEN gps' = [stop(gps) EXCEPT !.clicks[c].pc = "done"]
     ELSE /\ gps.starts < MaxStarts
          /\ gps' = IF device.platform = "ios"
                    THEN [gps EXCEPT !.clicks[c].pc = "permission"]
                    ELSE start(gps, c, device)
  /\ UNCHANGED device
  /\ UNCHANGED <<storeVars, jobVars, layerVars, delVars>>
  /\ UNCHANGED <<tilesVars, nearVars, parseVars, statusVars, catalogVars, swVars,
                 uiVars>>

\* The requestPermission of part_002 line 564 settles; what it settles with
\* is not looked at.
permissionSettles(c) ==
  /\ gps.clicks[c].pc = "permission"
  /\ gps' = start(gps, c, device)
  /\ UNCHANGED device
  /\ UNCHANGED <<storeVars, jobVars, layerVars, delVars>>
  /\ UNCHANGED <<tilesVars, nearVars, parseVars, statusVars, catalogVars, swVars,
                 uiVars>>

\* navigator.wakeLock.request('screen') settles, part_001 lines 38-45.
wakeLockSettles(c, granted) ==
  /\ gps.clicks[c].pc = "wakeLock"
  /\ gps' = setupCompass([gps EXCEPT !.wakeLock = granted \/ @], c, device)
  /\ UNCHANGED device
  /\ UNCHANGED <<storeVars, jobVars, layerVars, delVars>>
  /\ UNCHANGED <<tilesVars, nearVars, parseVars, statusVars, catalogVars, swVars,
                 uiVars>>

\* The requestPermission of part_001 line 107 settles, lines 107-111 and
\* 118-120.
compassSettles(c, state) ==
  /\ gps.clicks[c].pc = "compass"
  /\ gps' = watchPosition(
              IF state = "granted"
              THEN [gps EXCEPT
                      !.orientationHandler = gps.clicks[c].n,
                      !.listeners = addEventListener(@, "deviceorientation",
                                                     gps.clicks[c].n, FALSE)]
              ELSE gps, c)
  /\ UNCHANGED device
  /\ UNCHANGED <<storeVars, jobVars, layerVars, delVars>>
  /\ UNCHANGED <<tilesVars, nearVars, parseVars, statusVars, catalogVars, swVars,
                 uiVars>>

\* ------------------------------------------------------- the download panel
\* initDownload, part_002 lines 470-548.  The click handler of the download
\* button hides the button, shows the panel and calls downloadTiles with a
\* fresh signal; the cancel button aborts that signal; the page's onProgress
\* touches the two elements only in the timeouts of its 'done' branch.  So
\* the button is hidden and the panel shown from the click until one of the
\* two timeout callbacks has run.

\* Lines 516-520 and 521-534: the branch of the 'done' handler, by the
\* truthiness of progress.cancelled.
doneBranch(event) ==
  IF event.cancelled = "true" THEN "cancelled" ELSE "finished"

\* The timeouts set by the 'done' events delivered so far and not yet run.
pendingTimeouts ==
  IF panelTimer = "none"
  THEN {doneBranch(progress[i]) :
          i \in {n \in DOMAIN progress : progress[n].phase = "done"}}
  ELSE {}

\* downloadPanel.classList.contains('hidden')
panelHidden == pc = "idle" \/ panelTimer # "none"

\* downloadBtn.classList.contains('hidden')
buttonHidden == pc # "idle" /\ panelTimer = "none"

\* The callback of the setTimeout of line 518 or 526 runs: the panel is
\* hidden and the button shown.
panelTimerFires ==
  /\ \E branch \in pendingTimeouts : panelTimer' = branch
  /\ UNCHANGED <<storeVars, jobVars, layerVars, delVars>>
  /\ UNCHANGED <<tilesVars, nearVars, parseVars, statusVars, catalogVars, swVars,
                 gpsVars>>

\* --------------------------------------------------------- specifications
TilesIdle ==
  /\ routeData = [bbox |-> <<>>, segments |-> <<>>]
  /\ zoomMin = 0
  /\ zoomMax = 0
  /\ tiles = {}
  /\ tilesPc = "idle"

NearestIdle ==
  /\ routePoints = <<>>
  /\ queryPoint = <<>>
  /\ nearest = <<>>
  /\ nearPc = "idle"

ParseIdle ==
  /\ kmlDoc = <<>>
  /\ parsed = <<>>
  /\ parsePc = "idle"

StatusIdle ==
  /\ request = NoRequest
  /\ timer = "none"
  /\ elapsed = 0
  /\ port1 = <<>>
  /\ handler = NoHandler

CatalogIdle ==
  /\ localStorage = <<>>
  /\ now = 0
  /\ catalog = NoCatalog
  /\ refresh = "idle"

SwIdle ==
  /\ routesCache = 0
  /\ fetchEvents = [e \in FetchEvents |-> NoFetchEvent]

GpsIdle ==
  /\ device = [platform |-> "none", wakeLock |-> FALSE]
  /\ gps = NoGps

UiIdle == panelTimer = "none"

DeviceIdle == SwIdle /\ GpsIdle /\ UiIdle

PageIdle == StatusIdle /\ CatalogIdle /\ DeviceIdle

PureIdle == TilesIdle /\ NearestIdle /\ ParseIdle /\ PageIdle

Init == StoreAny /\ DownloadIdle /\ LayerIdle /\ DelIdle /\ PureIdle

Next ==
  \/ \E r \in Routes, c \in 0..MaxConcurrency, d \in DelayChoices,
        s \in SignalStates : pc = "idle" /\ downloadTiles(r, c, d, s)
  \/ \E db \in {"open", "rejected"}, err \in BOOLEAN : getTileSettles(db, err)
  \/ \E w \in 1..MaxConcurrency, o \in {"ok", "notOk", "throw"} :
        fetchSettles(w, o)
  \/ \E w \in 1..MaxConcurrency, ok \in BOOLEAN : blobSettles(w, ok)
  \/ \E w \in 1..MaxConcurrency, db \in {"open", "rejected"}, err \in BOOLEAN :
        putTileSettles(w, db, err)
  \/ \E w \in 1..MaxConcurrency : delayElapses(w)
  \/ abort

\* One invocation of downloadTiles, from any content of the store.
Spec == Init /\ [][Next]_vars

\* The same with every awaited promise of downloadTiles settling in the
\* end, one way or the other: the reads of the checking loop, the fetches,
\* the bodies, the writes and the delays.  The caller is free to call and
\* to abort or not.
Settling ==
  /\ WF_vars(\E db \in {"open", "rejected"}, err \in BOOLEAN :
               getTileSettles(db, err))
  /\ \A w \in 1..MaxConcurrency :
       /\ WF_vars(\E o \in {"ok", "notOk", "throw"} : fetchSettles(w, o))
       /\ WF_vars(\E ok \in BOOLEAN : blobSettles(w, ok))
       /\ WF_vars(\E db \in {"open", "rejected"}, err \in BOOLEAN :
                    putTileSettles(w, db, err))
       /\ WF_vars(delayElapses(w))

SpecSettling == Init /\ [][Next]_vars /\ Settling

\* The same route downloaded again and again, each call after the previous
\* one has returned, with any options; clearAllTiles at any time.
NextRepeat ==
  \/ Next
  \/ \E c \in 0..MaxConcurrency, d \in DelayChoices, s \in SignalStates :
        pc = "returned" /\ downloadTiles(Range(allTileKeys), c, d, s)
  \/ \E db \in {"open", "rejected"} : clearAllTiles(db)

SpecRepeat == Init /\ [][NextRepeat]_vars

\* The map asks the layer for tiles.
NextLayer ==
  \/ \E r \in TileRequests, k \in Keys : createTile(r, k)
  \/ \E r \in TileRequests, db \in {"open", "rejected"}, err \in BOOLEAN :
        tileLookupSettles(r, db, err)
  \/ \E r \in TileRequests, o \in {"ok", "notOk", "throw"} :
        tileFetchSettles(r, o)
  \/ \E r \in TileRequests, ok \in BOOLEAN : tileBlobSettles(r, ok)
  \/ \E r \in TileRequests, db \in {"open", "rejected"}, err \in BOOLEAN :
        tilePutSettles(r, db, err)
  \/ \E r \in TileRequests, ok \in BOOLEAN : tileImageSettles(r, ok)
  \/ \E r \in TileRequests : placeholderLoads(r)

SpecLayer == Init /\ [][NextLayer]_vars

\* The locals of downloadTiles before any call, as in DownloadIdle.
NoJob == [pc |-> "idle", signal |-> "null", concurrency |-> 0, delayMs |-> 0,
          allTileKeys |-> <<>>, chk |-> 0, toDownload |-> <<>>, cached |-> 0,
          total |-> 0, completed |-> 0, failed |-> 0, queue |-> <<>>,
          workers |-> <<>>, progress |-> <<>>, result |-> NoResult,
          fetches |-> [k \in Keys |-> 0], written |-> {}, failedKeys |-> {},
          probed |-> {}]

\* No call is under way: no download, no tile of the layer, no cursor.
StoreQuiet ==
  /\ pc \in {"idle", "returned", "rejected"}
  /\ \A r \in TileRequests :
       layer[r].pc \in {"none", "shown"} /\ layer[r].put # "pending"
  /\ del.pc # "cursor"

\* The calls that have run to their end are let go of: their locals, their
\* result and the tile elements they filled are no longer referenced.
callsForgotten ==
  /\ StoreQuiet
  /\ ~(DownloadIdle /\ LayerIdle /\ DelIdle)
  /\ Commit(NoJob)
  /\ clearedSince' = FALSE /\ idem' = FALSE /\ prevConcurrency' = 0
  /\ layer' = [r \in TileRequests |-> NoTile]
  /\ del' = NoDelete
  /\ UNCHANGED <<storeVars, pureVars>>

\* Any sequence of calls on the store except clearAllTiles: downloadTiles
\* (cancelled or not), createTile for the tiles of one view, putTile,
\* deleteTilesForRoute, each begun when the calls before it have run to
\* their end and have been let go of.
NextStore ==
  \/ \E r \in Routes, c \in 0..MaxConcurrency, d \in DelayChoices,
        s \in SignalStates :
        LayerIdle /\ DelIdle /\ pc = "idle" /\ downloadTiles(r, c, d, s)
  \/ \E db \in {"open", "rejected"}, err \in BOOLEAN : getTileSettles(db, err)
  \/ \E w \in 1..MaxConcurrency, o \in {"ok", "notOk", "throw"} :
        fetchSettles(w, o)
  \/ \E w \in 1..MaxConcurrency, ok \in BOOLEAN : blobSettles(w, ok)
  \/ \E w \in 1..MaxConcurrency, db \in {"open", "rejected"}, err \in BOOLEAN :
        putTileSettles(w, db, err)
  \/ \E w \in 1..MaxConcurrency : delayElapses(w)
  \/ abort
  \/ \E r \in TileRequests, k \in Keys :
        DownloadIdle /\ DelIdle /\ createTile(r, k)
  \/ \E r \in TileRequests, db \in {"open", "rejected"}, err \in BOOLEAN :
        tileLookupSettles(r, db, err)
  \/ \E r \in TileRequests, o \in {"ok", "notOk", "throw"} :
        tileFetchSettles(r, o)
  \/ \E r \in TileRequests, ok \in BOOLEAN : tileBlobSettles(r, ok)
  \/ \E r \in TileRequests, db \in {"open", "rejected"}, err \in BOOLEAN :
        tilePutSettles(r, db, err)
  \/ \E r \in TileRequests, ok \in BOOLEAN : tileImageSettles(r, ok)
  \/ \E r \in TileRequests : placeholderLoads(r)
  \/ \E k \in Keys, db \in {"open", "rejected"}, err \in BOOLEAN :
        DownloadIdle /\ LayerIdle /\ DelIdle /\ putTileCalled(k, db, err)
  \/ \E db \in {"open", "rejected"} :
        DownloadIdle /\ LayerIdle /\ deleteTilesForRoute(db)
  \/ cursorContinues
  \/ deleteReturns
  \/ callsForgotten

SpecStore == Init /\ [][NextStore]_vars

\* getTilesForRoute applied to every route and zoom range of TilesCalled.
InitTiles ==
  /\ StoreEmpty /\ DownloadIdle /\ LayerIdle /\ DelIdle
  /\ TilesCalled /\ NearestIdle /\ ParseIdle /\ PageIdle

NextTiles == getTilesReturns

SpecTiles == InitTiles /\ [][NextTiles]_vars

\* findNearestPoint applied to every route and position of NearestCalled.
InitNearest ==
  /\ StoreEmpty /\ DownloadIdle /\ LayerIdle /\ DelIdle
  /\ TilesIdle /\ NearestCalled /\ ParseIdle /\ PageIdle

NextNearest == findNearestReturns

SpecNearest == InitNearest /\ [][NextNearest]_vars

\* parse applied to every document of Documents.
InitParse ==
  /\ StoreEmpty /\ DownloadIdle /\ LayerIdle /\ DelIdle
  /\ TilesIdle /\ NearestIdle /\ ParseCalled /\ PageIdle

NextParse == parseReturns

SpecParse == InitParse /\ [][NextParse]_vars

\* One cache-status request, of either kind, with or without a controller.
NextStatus ==
  \/ \E controller \in BOOLEAN : isKmlCached(controller)
  \/ \E controller \in BOOLEAN : cacheKmlFile(controller)
  \/ timePasses
  \/ timeoutFires
  \/ messageArrives
  \/ onMessage
  \/ \E ok \in BOOLEAN : cachesOpenSettles(ok)
  \/ \E o \in {"found", "missing", "rejects"} : matchSettles(o)
  \/ \E o \in {"ok", "notOk", "throw"} : routeFetchSettles(o)
  \/ \E ok \in BOOLEAN : cachePutSettles(ok)

InitStatus ==
  /\ StoreEmpty /\ DownloadIdle /\ LayerIdle /\ DelIdle /\ PureIdle

SpecStatus == InitStatus /\ [][NextStatus]_vars

\* loadCatalog called again and again, each call after the previous one
\* has ended, while time passes.
NextCatalog ==
  \/ \E onUpdate \in BOOLEAN : loadCatalog(onUpdate)
  \/ \E o \in {"ok", "notOk", "throw"} : catalogFetchSettles(o)
  \/ \E data \in CatalogData, saved \in BOOLEAN :
        catalogJsonSettles(data, saved)
  \/ catalogJsonFails
  \/ \E o \in {"ok", "notOk", "throw"} : refreshFetchSettles(o)
  \/ \E ok \in BOOLEAN, data \in CatalogData, saved \in BOOLEAN :
        refreshJsonSettles(ok, data, saved)
  \/ halfDayPasses

InitCatalog ==
  /\ StoreEmpty /\ DownloadIdle /\ LayerIdle /\ DelIdle /\ PureIdle

SpecCatalog == InitCatalog /\ [][NextCatalog]_vars

\* The pages fetch a route resource through the service worker.
NextWorker ==
  \/ \E e \in FetchEvents : onFetch(e)
  \/ \E e \in FetchEvents, status \in Statuses : networkSettles(e, status)
  \/ \E e \in FetchEvents : networkFails(e)
  \/ \E e \in FetchEvents, opened \in BOOLEAN : routesCacheOpens(e, opened)
  \/ \E e \in FetchEvents, stored \in BOOLEAN : routePutSettles(e, stored)
  \/ \E e \in FetchEvents : routeMatchSettles(e)

InitWorker ==
  /\ StoreEmpty /\ DownloadIdle /\ LayerIdle /\ DelIdle /\ PureIdle

SpecWorker == InitWorker /\ [][NextWorker]_vars

\* The user clicks the navigation button on a device of any kind.
NextGps ==
  \/ \E c \in ClickHandlers : click(c)
  \/ \E c \in ClickHandlers : permissionSettles(c)
  \/ \E c \in ClickHandlers, granted \in BOOLEAN : wakeLockSettles(c, granted)
  \/ \E c \in ClickHandlers, state \in {"granted", "denied", "rejects"} :
        compassSettles(c, state)

InitGps ==
  /\ StoreEmpty /\ DownloadIdle /\ LayerIdle /\ DelIdle
  /\ TilesIdle /\ NearestIdle /\ ParseIdle /\ StatusIdle /\ CatalogIdle
  /\ SwIdle /\ UiIdle
  /\ device \in Devices
  /\ gps = NoGps

SpecGps == InitGps /\ [][NextGps]_vars

\* The route page: one click on the download button (lines 484-504, the
\* options of lines 497-501 with the bound on the workers standing for the
\* 4 of the page), the cancel button, every awaited promise settling and
\* every timeout running in the end.
NextPage ==
  \/ \E r \in Routes :
        pc = "idle" /\ downloadTiles(r, MaxConcurrency, 100, "active")
  \/ \E db \in {"open", "rejected"}, err \in BOOLEAN : getTileSettles(db, err)
  \/ \E w \in 1..MaxConcurrency, o \in {"ok", "notOk", "throw"} :
        fetchSettles(w, o)
  \/ \E w \in 1..MaxConcurrency, ok \in BOOLEAN : blobSettles(w, ok)
  \/ \E w \in 1..MaxConcurrency, db \in {"open", "rejected"}, err \in BOOLEAN :
        putTileSettles(w, db, err)
  \/ \E w \in 1..MaxConcurrency : delayElapses(w)
  \/ abort
  \/ panelTimerFires

SpecPage ==
  Init /\ [][NextPage]_vars /\ Settling /\ WF_vars(panelTimerFires)

\* =================================================================== claims
\* Vocabulary of the properties below.
DoneEvents == {i \in DOMAIN progress : progress[i].phase = "done"}

Sum(r) == r.completed + r.failed + r.cached

NoFetchIssued == \A k \in Keys : fetches[k] = 0

\* Workers between `fetch(url)` and the end of the try block of that key.
InFlight == {w \in DOMAIN workers : workers[w].pc \in {"fetch", "blob", "put"}}

InFlightKeys == {workers[w].key : w \in InFlight}

\* ----------------------------------------------------------------------- C1
\* C1: every invocation of downloadTiles that returns a result has called
\* onProgress exactly once with phase "done" (also when it returns because
\* of a cancellation seen by the checking loop).
C1_DoneExactlyOnce == pc = "returned" => Cardinality(DoneEvents) = 1

\* ----------------------------------------------------------------------- C2
\* C2: with concurrency >= 1 a returned result has
\* completed + failed + cached <= total, total being the size of the full
\* key set, with equality when cancelled is false.
C2_CountsAddUp ==
  (pc = "returned" /\ concurrency >= 1) =>
     /\ result.total = Len(allTileKeys)
     /\ Sum(result) <= result.total
     /\ (~result.cancelled => Sum(result) = result.total)

C2_Witness ==
  /\ pc = "returned" /\ concurrency >= 1 /\ ~result.cancelled
  /\ result.completed >= 1 /\ result.failed >= 1 /\ result.cached >= 1

\* ----------------------------------------------------------------------- C3
\* C3 as stated: a call that repeats a call which returned failed = 0 and
\* cancelled = false, with no clearAllTiles since that call began, issues no
\* fetch and returns completed = 0, failed = 0, cached = total.
C3_Idempotent_AsStated ==
  (pc = "returned" /\ idem) =>
     /\ NoFetchIssued
     /\ result.completed = 0 /\ result.failed = 0
     /\ result.cached = result.total

\* C3 amended: the same, provided the first call ran with concurrency >= 1;
\* the second call then issues no fetch and returns completed = 0 and
\* failed = 0, and cached = total unless the second call itself returns
\* cancelled = true from its checking loop.
C3_Idempotent ==
  (pc = "returned" /\ idem /\ prevConcurrency >= 1) =>
     /\ NoFetchIssued
     /\ written = {}
     /\ result.completed = 0 /\ result.failed = 0
     /\ (result.cancelled \/ result.cached = result.total)

C3_Witness ==
  /\ pc = "returned" /\ idem /\ prevConcurrency >= 1
  /\ ~result.cancelled
  /\ result.total >= 2 /\ result.cached = result.total

\* ----------------------------------------------------------------------- C4
\* C4: once the signal is aborted while no worker has dequeued a key yet
\* (before the call, during checking, or between checking and downloading),
\* the invocation never issues a fetch nor writes a tile, and a result it
\* returns has completed = 0.
C4_CancelBeforeDequeue ==
  [][ (Aborted(signal') /\ NoFetchIssued /\ written = {})
        => /\ NoFetchIssued'
           /\ written' = {}
           /\ store' = store
           /\ (pc' = "returned" => result'.completed = 0) ]_vars

\* Cancelled while the probe of the last key was pending, with keys to
\* download and workers to take them.
C4_Witness ==
  /\ pc = "returned" /\ Aborted(signal) /\ concurrency >= 1
  /\ total >= 1 /\ Len(queue) = total
  /\ NoFetchIssued /\ result.completed = 0

\* ----------------------------------------------------------------------- C5
\* C5: when the signal is aborted while the checking loop awaits a probe
\* (the probe of the last key included), the result has cancelled = true.
C5_CancelledReported ==
  [][ (pc = "checking" /\ Aborted(signal) /\ pc' = "returned")
        => result'.cancelled ]_vars

\* ----------------------------------------------------------------------- C6
\* C6: once the signal is aborted in the downloading phase no worker
\* dequeues a key; only keys in flight at that time (at most `concurrency`)
\* can still be written or counted, and nothing stored is removed.
C6_NoDequeueAfterAbort ==
  [][ (pc = "downloading" /\ Aborted(signal))
        => /\ queue' = queue
           /\ fetches' = fetches
           /\ Cardinality(InFlightKeys) <= concurrency
           /\ InFlightKeys' \subseteq InFlightKeys
           /\ store \subseteq store'
           /\ (store' \ store) \subseteq InFlightKeys
           /\ (written' \ written) \subseteq InFlightKeys
           /\ (failedKeys' \ failedKeys) \subseteq InFlightKeys
           /\ completed' + failed' <= completed + failed + 1 ]_vars

\* After the abort one worker has come back, found keys in the queue and
\* returned, while the put of another worker is still pending.
C6_Witness ==
  /\ pc = "downloading" /\ Aborted(signal) /\ Len(queue) >= 1
  /\ \E w \in DOMAIN workers : workers[w].pc = "returned"
  /\ \E w \in DOMAIN workers : workers[w].pc = "put"

\* ----------------------------------------------------------------------- C7
\* C7: at every moment at most `concurrency` fetches are in flight.
C7_BoundedConcurrency ==
  /\ Cardinality(InFlight) <= concurrency
  /\ Len(workers) <= concurrency

\* Both workers busy again after one of them has finished a first key.
C7_Witness ==
  /\ pc = "downloading" /\ concurrency >= 2
  /\ Cardinality(InFlight) = concurrency
  /\ completed + failed >= 1

\* ----------------------------------------------------------------------- C8
\* C8: each queued key is dequeued at most once and by one worker: no key
\* is fetched twice, and a key whose attempt failed is not in the queue
\* again nor held by a worker.
C8_DequeuedOnce ==
  /\ \A k \in Keys : fetches[k] <= 1
  /\ \A k \in Keys : k \in Range(queue) => fetches[k] = 0
  /\ \A v, w \in InFlight : workers[v].key = workers[w].key => v = w
  /\ \A k \in failedKeys : k \notin Range(queue) /\ k \notin InFlightKeys
  /\ \A i, j \in DOMAIN queue : queue[i] = queue[j] => i = j

C8_Witness ==
  /\ pc = "returned" /\ concurrency >= 2 /\ ~result.cancelled
  /\ result.failed >= 1 /\ result.completed >= 1
  /\ \A k \in Range(toDownload) : fetches[k] = 1

\* ----------------------------------------------------------------------- C9
\* C9: a failed attempt (non-ok response, rejected fetch) adds exactly one to
\* failed, stores nothing for its key, never makes downloadTiles reject, and
\* leaves the other queued keys to be attempted.
C9_FailureIsPerTile ==
  /\ [](failed = Cardinality(failedKeys))
  /\ [](failedKeys \cap written = {})
  /\ [][pc = "downloading" => pc' # "rejected"]_vars
  /\ [][failedKeys' # failedKeys
          => /\ failed' = failed + 1
             /\ store' = store
             /\ Cardinality(failedKeys') = Cardinality(failedKeys) + 1 ]_vars
  /\ []((pc = "returned" /\ ~result.cancelled /\ concurrency >= 1)
          => \A k \in Range(toDownload) : fetches[k] = 1)

\* One worker: the first key failed, the second was then stored.
C9_Witness ==
  /\ pc = "returned" /\ concurrency = 1
  /\ Len(toDownload) >= 2
  /\ toDownload[1] \in failedKeys
  /\ toDownload[2] \in written

\* ---------------------------------------------------------------------- C10
\* C10: downloadTiles never rejects because of a storage error: a failing
\* read counts as "not cached", a failing write is swallowed.
C10_NeverRejects == pc # "rejected"

\* ---------------------------------------------------------------------- C11
\* C11: the tile layer asks the store before the network: an element makes
\* a network request only after the store lookup for its key has answered
\* "absent" or has failed, and an element whose lookup answered a blob shows
\* that blob and makes no network request.
C11_StoreBeforeNetwork ==
  \A r \in TileRequests :
    /\ layer[r].net >= 1 => layer[r].lookup \in {"absent", "failed"}
    /\ layer[r].lookup = "blob" =>
         /\ layer[r].net = 0
         /\ layer[r].src = "blob"
         /\ layer[r].pc = "shown"
    /\ layer[r].pc \in {"fetch", "blob", "img"} => layer[r].net = 1

\* A tile found in the store is on the map, and no request was made for it.
C11_Witness ==
  \E r \in TileRequests :
    /\ layer[r].lookup = "blob" /\ layer[r].pc = "shown"
    /\ layer[r].key \in store
    /\ layer[r].net = 0 /\ layer[r].done = 1

\* ---------------------------------------------------------------------- C12
\* C12: no operation other than clearAllTiles removes a key: over any
\* interleaving of downloadTiles (run to the end or cancelled), createTile,
\* putTile and deleteTilesForRoute the set of stored keys never shrinks, and
\* deleteTilesForRoute leaves the store as it is and returns 0.
C12_OnlyClearRemoves ==
  /\ [][store \subseteq store']_vars
  /\ [][del.pc = "cursor" /\ del' # del => store' = store]_vars
  /\ [](del.pc = "returned" => del.value = 0)

\* deleteTilesForRoute has walked a store of two keys or more and returned.
C12_Witness ==
  /\ del.pc = "returned" /\ del.value = 0 /\ del.cursor = <<>>
  /\ Cardinality(store) >= 2

\* --------------------------------------------------------------- C13 - C15
\* Vocabulary of the tile index properties, written without the operators
\* of getTilesForRoute other than lon2tile and lat2tile.
Abs(n) == IF n < 0 THEN -n ELSE n

TilesAt(z) == {k \in tiles : k[1] = z}

\* The tiles of the box widened by 0.01 degrees (one unit) on every side.
ExpandedRectangle(bbox, z) ==
  {<<z, x, y>> :
     x \in lon2tile(bbox.minLon - 1, z)..lon2tile(bbox.maxLon + 1, z),
     y \in lat2tile(bbox.maxLat + 1, z)..lat2tile(bbox.minLat - 1, z)}

\* The three by three tiles centred on the tile of a point.
ThreeByThree(point, z) ==
  {<<z, x, y>> :
     x \in (lon2tile(point[2], z) - 1)..(lon2tile(point[2], z) + 1),
     y \in (lat2tile(point[1], z) - 1)..(lat2tile(point[1], z) + 1)}

NearSomePoint(k) ==
  \E n \in DOMAIN routeData.segments :
    \E i \in DOMAIN routeData.segments[n] :
      LET point == routeData.segments[n][i]
      IN /\ Abs(k[2] - lon2tile(point[2], k[1])) <= 1
         /\ Abs(k[3] - lat2tile(point[1], k[1])) <= 1

\* C13: every key returned has a zoom between zoomMin and zoomMax; the keys
\* of a zoom up to 13 are exactly the rectangle of the bounding box widened
\* by 0.01 degrees; every key of a zoom from 14 on is within one tile, in x
\* and in y, of the tile of some segment point; nothing is returned when
\* zoomMin > zoomMax.
C13_TwoZoomBands ==
  tilesPc = "returned" =>
    /\ \A k \in tiles : zoomMin <= k[1] /\ k[1] <= zoomMax
    /\ \A z \in zoomMin..zoomMax :
         z <= 13 => TilesAt(z) = ExpandedRectangle(routeData.bbox, z)
    /\ \A k \in tiles : k[1] >= 14 => NearSomePoint(k)
    /\ zoomMin > zoomMax => tiles = {}

\* Both bands returned for a box whose west side is a tile away from the
\* west side of the widened box.
C13_Witness ==
  /\ tilesPc = "returned"
  /\ zoomMin = 13 /\ zoomMax = 14
  /\ routeData.bbox.minLon = 3762
  /\ TilesAt(13) # {} /\ TilesAt(14) # {}
  /\ <<13, lon2tile(3762, 13) - 1, lat2tile(5570, 13)>> \in tiles

SinglePoint == Len(routeData.segments) = 1 /\ Len(routeData.segments[1]) = 1

\* The number of tiles of the widened box at one zoom: width times height.
RectangleCount(bbox, z) ==
  LET w == lon2tile(bbox.maxLon + 1, z) - lon2tile(bbox.minLon - 1, z) + 1
      h == lat2tile(bbox.minLat - 1, z) - lat2tile(bbox.maxLat + 1, z) + 1
  IN IF w > 0 /\ h > 0 THEN w * h ELSE 0

RECURSIVE LowZoomCount(_, _, _)
LowZoomCount(bbox, zFrom, zTo) ==
  IF zFrom > zTo THEN 0
  ELSE RectangleCount(bbox, zFrom) + LowZoomCount(bbox, zFrom + 1, zTo)

HighZooms == {z \in zoomMin..zoomMax : z >= 14}

\* C14: for a route whose geometry is one point, the keys of each zoom from
\* 14 on are exactly the nine of the block centred on the tile of the point
\* (so a call for zoom 14 alone returns exactly these nine), the keys of
\* each zoom up to 13 are the rectangle of the bounding box, and the number
\* of keys is the sum of the rectangles plus nine per high zoom.
C14_SinglePointRoute ==
  tilesPc = "returned" /\ SinglePoint =>
    LET point == routeData.segments[1][1]
    IN /\ \A z \in HighZooms :
            /\ TilesAt(z) = ThreeByThree(point, z)
            /\ Cardinality(TilesAt(z)) = 9
       /\ \A z \in zoomMin..zoomMax :
            z <= 13 => TilesAt(z) = ExpandedRectangle(routeData.bbox, z)
       /\ Cardinality(tiles) =
            LowZoomCount(routeData.bbox, zoomMin,
                         IF zoomMax < 13 THEN zoomMax ELSE 13)
              + 9 * Cardinality(HighZooms)
       /\ zoomMin = 14 /\ zoomMax = 14 => Cardinality(tiles) = 9

\* One point, zooms 13 and 14: nine keys at 14 and the rectangle at 13.
C14_Witness ==
  /\ tilesPc = "returned" /\ SinglePoint
  /\ zoomMin = 13 /\ zoomMax = 14
  /\ Cardinality(TilesAt(14)) = 9
  /\ Cardinality(TilesAt(13)) >= 4

\* C15: for every segment that has a point and every zoom from
\* max(14, zoomMin) to zoomMax, the three by three block around the tile of
\* the last point of the segment is in the result, whether the stride lands
\* on the last index or not.
C15_LastPointIncluded ==
  tilesPc = "returned" =>
    \A n \in DOMAIN routeData.segments :
      LET segment == routeData.segments[n]
      IN Len(segment) > 0 =>
           \A z \in HighZooms :
             ThreeByThree(segment[Len(segment)], z) \subseteq tiles

\* A segment of 1000 points: the stride is 2, the last index 999 is not a
\* multiple of it, and the last point is four tiles away from the others.
C15_Witness ==
  /\ tilesPc = "returned"
  /\ zoomMin <= 14 /\ zoomMax >= 14
  /\ \E n \in DOMAIN routeData.segments :
       LET segment == routeData.segments[n]
       IN /\ Len(segment) = 1000
          /\ (Len(segment) - 1) % (Len(segment) \div 500) # 0
          /\ segment[Len(segment)][1] = 5574
          /\ \A i \in 1..(Len(segment) - 1) : segment[i][1] = 5570
          /\ ThreeByThree(segment[Len(segment)], 14) \subseteq tiles

\* --------------------------------------------------------------- C16 - C17
\* Vocabulary of the locator properties; indices count from 0 as in the
\* code.
Indices == 0..(Len(routePoints) - 1)

DistanceTo(i) ==
  haversine(queryPoint[1], queryPoint[2],
            routePoints[i + 1][1], routePoints[i + 1][2])

Stride == IF Len(routePoints) < 2000 THEN 1 ELSE Len(routePoints) \div 1000

\* The returned point is a point of the route, at the minimum of the
\* distances of all route points, and that minimum is returned with it.
ReturnsAMinimum ==
  /\ nearest.index \in Indices
  /\ nearest.point = routePoints[nearest.index + 1]
  /\ nearest.distance = DistanceTo(nearest.index)
  /\ \A i \in Indices : nearest.distance <= DistanceTo(i)

\* Three points in a line and a position next to the middle one.
ThreeInLine ==
  /\ routePoints = <<<<0, 0, 0>>, <<0, 100, 0>>, <<0, 200, 0>>>>
  /\ queryPoint = <<0, 101>>

\* C16 as stated: for every flattened route of fewer than 2000 points the
\* value returned is a route point at the minimum distance, with that
\* distance.
C16_NearestOfShortRoute_AsStated ==
  nearPc = "returned" /\ Len(routePoints) < 2000 => ReturnsAMinimum

\* C16: for a flattened route of at least one and fewer than 2000 points
\* findNearestPoint returns a route point at the minimum of the distances of
\* all route points, with that distance; for three points in a line and a
\* position next to the middle one it returns the middle point; for a route
\* without points it returns no point and the distance Infinity.
C16_NearestOfShortRoute ==
  nearPc = "returned" /\ Len(routePoints) < 2000 =>
    /\ Len(routePoints) > 0 => ReturnsAMinimum
    /\ ThreeInLine => nearest.index = 1 /\ nearest.point = <<0, 100, 0>>
    /\ Len(routePoints) = 0 =>
         nearest.point = "null" /\ nearest.distance = Infinity

\* The middle of three points in a line has been returned.
C16_Witness ==
  /\ nearPc = "returned" /\ ThreeInLine
  /\ nearest.index = 1 /\ nearest.distance = 1111949

\* The indices the coarse pass examines.
OnStride(i) == i % Stride = 0

CoarseIndices == {i \in Indices : OnStride(i)}

\* c is the result of the coarse pass: the first of the coarse indices at
\* the least of their distances.
IsCoarseWinner(c) ==
  /\ c \in Indices /\ OnStride(c)
  /\ \A i \in CoarseIndices :
       \/ DistanceTo(c) < DistanceTo(i)
       \/ DistanceTo(c) = DistanceTo(i) /\ c <= i

\* The indices the refinement pass examines around the coarse result c.
WindowIndices(c) == {i \in Indices : c - Stride <= i /\ i < c + Stride}

\* Where the returned index allows the coarse result to be.
NearReturned == (nearest.index - Stride)..(nearest.index + Stride)

\* i is examined before j: coarse pass first, each pass in index order.
\* An index of both passes counts where it is examined first.
ExaminedBefore(i, j) ==
  \/ OnStride(i) /\ OnStride(j) /\ i < j
  \/ OnStride(i) /\ ~OnStride(j)
  \/ ~OnStride(i) /\ ~OnStride(j) /\ i < j

\* C17 as stated: for any route length and stride, the returned point has
\* the lowest index among the examined points at the returned distance.
C17_FirstFound_AsStated ==
  nearPc = "returned" /\ Len(routePoints) > 0 =>
    \E c \in NearReturned :
      /\ IsCoarseWinner(c)
      /\ \A i \in CoarseIndices \cup WindowIndices(c) :
           DistanceTo(i) = nearest.distance => nearest.index <= i

\* C17: the returned distance is the least among the examined points, and
\* the returned point is the first examined among those at that distance:
\* no point at the same distance is examined before it, with the coarse pass
\* before the refinement pass and each pass in index order.  For a stride
\* of 1 it is the point of lowest index at that distance.
C17_FirstFound ==
  nearPc = "returned" /\ Len(routePoints) > 0 =>
    /\ \E c \in NearReturned :
         /\ IsCoarseWinner(c)
         /\ c - Stride <= nearest.index /\ nearest.index < c + Stride
         /\ \A i \in CoarseIndices \cup WindowIndices(c) :
              /\ nearest.distance <= DistanceTo(i)
              /\ DistanceTo(i) = nearest.distance =>
                   ~ExaminedBefore(i, nearest.index)
    /\ Stride = 1 =>
         \A i \in Indices :
           DistanceTo(i) = nearest.distance => nearest.index <= i

\* A route of 2000 points: the point before the returned one is examined by
\* the refinement pass only, it is another point and at the same distance.
C17_Witness ==
  /\ nearPc = "returned"
  /\ Stride = 2
  /\ nearest.index >= 1
  /\ OnStride(nearest.index)
  /\ DistanceTo(nearest.index - 1) = nearest.distance
  /\ routePoints[nearest.index] # routePoints[nearest.index + 1]

\* --------------------------------------------------------------- C18 - C20
\* Vocabulary of the parser properties.
\* A POI or a segment point has been observed: it is in the result.
PointObserved ==
  Len(parsed.pois) > 0 \/ \E n \in 1..Len(parsed.segments) :
                            Len(parsed.segments[n]) > 0

\* Reading a value as a number is safe: NaN <= x is false.
LessOrEqual(a, b) == IsNumber(a) /\ IsNumber(b) /\ a <= b

BoxOrdered ==
  /\ LessOrEqual(parsed.bbox.minLat, parsed.bbox.maxLat)
  /\ LessOrEqual(parsed.bbox.minLon, parsed.bbox.maxLon)

\* C18: after parse returns, minLat <= maxLat and minLon <= maxLon hold if
\* and only if at least one POI or segment point was observed.
C18_BoxOrderedIffObserved ==
  parsePc = "returned" => (BoxOrdered <=> PointObserved)

\* C19: for every document in which no POI and no segment point is
\* observed, bbox is exactly {90, -90, 180, -180} and stats has no span_km,
\* no elevation key and no track_km.
C19_NothingObserved ==
  parsePc = "returned" /\ ~PointObserved =>
    /\ parsed.bbox = [minLat |-> 9000, maxLat |-> -9000,
                      minLon |-> 18000, maxLon |-> -18000]
    /\ parsed.stats = {}

\* Two placemarks, a Point with one coordinate and a LineString without
\* points: nothing observed.
C19_Witness ==
  /\ parsePc = "returned"
  /\ Len(kmlDoc) = 2
  /\ kmlDoc[1].point # <<>> /\ kmlDoc[2].lineString # <<>>
  /\ ~PointObserved
  /\ parsed.stats = {}

\* The point is on the globe.
OnGlobe(lat, lon) ==
  /\ LessOrEqual(-9000, lat) /\ LessOrEqual(lat, 9000)
  /\ LessOrEqual(-18000, lon) /\ LessOrEqual(lon, 18000)

ObservedOnGlobe ==
  \/ \E i \in 1..Len(parsed.pois) :
       OnGlobe(parsed.pois[i].lat, parsed.pois[i].lon)
  \/ \E n \in 1..Len(parsed.segments) :
       \E i \in 1..Len(parsed.segments[n]) :
         OnGlobe(parsed.segments[n][i][1], parsed.segments[n][i][2])

\* C20: whenever parse observed at least one POI or segment point with a
\* latitude in [-90, 90] and a longitude in [-180, 180], stats has the key
\* span_km.
C20_SpanWhenObserved ==
  parsePc = "returned" /\ ObservedOnGlobe => "span_km" \in parsed.stats


\* The points of a segment that carry a non-zero elevation.
ElevationBearing(seg) == {i \in 1..Len(seg) : seg[i][3] # 0}

\* Some segment has two such points or more.
SomeSegmentHasElevations ==
  \E n \in 1..Len(parsed.segments) :
    Cardinality(ElevationBearing(parsed.segments[n])) >= 2

\* C21: stats has the four elevation keys all together or none of them; it
\* has them exactly when some segment has two or more points that carry a
\* non-zero elevation; and when it has them not, none of them is there with
\* the value 0.
C21_ElevationKeysTogether ==
  parsePc = "returned" =>
    /\ \/ ElevationKeys \subseteq parsed.stats
       \/ ElevationKeys \cap parsed.stats = {}
    /\ ElevationKeys \subseteq parsed.stats <=> SomeSegmentHasElevations
    /\ ~SomeSegmentHasElevations =>
         \A k \in ElevationKeys :
           ~(k \in DOMAIN parsed.values /\ parsed.values[k] = 0)

\* A segment with two elevations and a point without one, and the keys.
C21_Witness ==
  /\ parsePc = "returned"
  /\ SomeSegmentHasElevations
  /\ \E n \in 1..Len(parsed.segments) :
       \E i \in 1..Len(parsed.segments[n]) : parsed.segments[n][i][3] = 0
  /\ ElevationKeys \subseteq parsed.stats

\* The elevations of the elevation-bearing points of a segment rise
\* strictly.
StrictlyIncreasing(seg) ==
  \A i, j \in ElevationBearing(seg) : i < j => seg[i][3] < seg[j][3]

\* The segments that take part in the elevation statistics.
ElevationSegments ==
  {n \in 1..Len(parsed.segments) :
     Cardinality(ElevationBearing(parsed.segments[n])) >= 2}

\* C22: when every segment of two or more elevation-bearing points, and
\* there is one, has a strictly increasing sequence of elevations, climb_m
\* is greater than 0 and descent_m is 0.
C22_ClimbKept ==
  /\ parsePc = "returned"
  /\ ElevationSegments # {}
  /\ \A n \in ElevationSegments : StrictlyIncreasing(parsed.segments[n])
  => /\ parsed.values["climb_m"] > 0
     /\ parsed.values["descent_m"] = 0

\* The steps of the track: the pairs of consecutive points of a segment.
Steps ==
  {st \in (1..Len(parsed.segments)) \X (2..MaxElevations) :
     st[2] <= Len(parsed.segments[st[1]])}

\* The length of a step in metres.
StepLength(st) ==
  LET seg == parsed.segments[st[1]]
  IN haversineKm(seg[st[2] - 1][1], seg[st[2] - 1][2],
                 seg[st[2]][1], seg[st[2]][2])

RECURSIVE TotalLength(_)
TotalLength(S) ==
  IF S = {} THEN 0
  ELSE LET st == CHOOSE x \in S : TRUE
       IN StepLength(st) + TotalLength(S \ {st})

\* Every point of the segments has a latitude and a longitude.
SegmentsNumeric ==
  \A n \in 1..Len(parsed.segments) : \A i \in 1..Len(parsed.segments[n]) :
    IsNumber(parsed.segments[n][i][1]) /\ IsNumber(parsed.segments[n][i][2])

\* C23: for segments of points with coordinates, track_km is the sum of the
\* lengths of the steps inside the segments, rounded to a tenth of a
\* kilometre: nothing is added from one segment to the next or for a POI;
\* and stats has no track_km when that sum is 0.
C23_TrackInsideSegments ==
  parsePc = "returned" /\ SegmentsNumeric =>
    IF TotalLength(Steps) = 0
    THEN "track_km" \notin parsed.stats
    ELSE /\ "track_km" \in parsed.stats
         /\ parsed.values["track_km"]
              = (TotalLength(Steps) + PerTenth \div 2) \div PerTenth

\* Two segments, the second starting away from the end of the first, and a
\* track with a length.
C23_Witness ==
  /\ parsePc = "returned"
  /\ SegmentsNumeric
  /\ Len(parsed.segments) >= 2
  /\ parsed.segments[1][Len(parsed.segments[1])] # parsed.segments[2][1]
  /\ "track_km" \in parsed.stats
  /\ parsed.values["track_km"] > 0

\* The answer of the service worker: the route was found in the cache,
\* resp. was put into it.
Answer == IF request.kind = "check" THEN handler.found ELSE handler.stored

\* C24: a cache-status request is resolved once: its value is that of the
\* first call of resolve and never changes afterwards.  That value is the
\* service worker's answer when the reply came first, false when the
\* timeout came first, and false when there was no controller; the timeout
\* does not fire before 2 s (isKmlCached), resp. 10 s (cacheKmlFile).
C24_ValueOfFirstResolve ==
  /\ request.state = "pending" <=> request.kind # "none" /\ request.resolves = <<>>
  /\ request.state = "resolved" =>
       /\ request.value = request.resolves[1].value
       /\ request.resolves[1].by = "reply" => request.value = Answer
       /\ request.resolves[1].by \in {"timeout", "noController"} =>
            request.value = FALSE
  /\ timer = "fired" =>
       elapsed >= (IF request.kind = "check" THEN 2000 ELSE 10000)

C24_NeverResolvedAgain ==
  request.state = "resolved" =>
    request'.state = "resolved" /\ request'.value = request.value

C24_ResolvesOnce == []C24_ValueOfFirstResolve /\ [][C24_NeverResolvedAgain]_vars

\* The timeout came first and resolved to false; the reply said true and
\* came later.
C24_Witness ==
  /\ request.state = "resolved"
  /\ Len(request.resolves) = 2
  /\ request.resolves[1].by = "timeout"
  /\ request.resolves[2] = [by |-> "reply", value |-> TRUE]
  /\ request.value = FALSE

\* C25: when a call of loadCatalog finds its fetch failed and the item of
\* localStorage had been written by an earlier call, it returns the sections
\* of that item and is not rejected.
C25_StoredCatalogReturned ==
  catalog.pc \in {"returned", "rejected"} /\ catalog.failed
    /\ catalog.item # <<>>
  => catalog.pc = "returned" /\ catalog.result = <<catalog.item[1].sections>>

\* C26: a key for which getTile of the checking loop returned a blob is
\* counted once in cached, is never put on the list to download or in the
\* queue, is never fetched and is never written to the store by this
\* invocation; the result reports that count.
C26_ProbedKeysLeftAlone ==
  /\ cached = Cardinality(probed)
  /\ \A k \in probed :
       /\ k \notin Range(toDownload) /\ k \notin Range(queue)
       /\ fetches[k] = 0
       /\ k \notin written
       /\ \A w \in DOMAIN workers : workers[w].key # k
  /\ pc = "returned" => result.cached = Cardinality(probed)

\* An invocation that found one key in the store and downloaded another.
C26_Witness ==
  /\ pc = "returned"
  /\ probed # {}
  /\ written # {}
  /\ result.cached = 1
  /\ result.completed >= 1

\* The place of a phase in the order checking, downloading, done.
PhaseRank(phase) ==
  CASE phase = "checking" -> 1 [] phase = "downloading" -> 2
    [] phase = "done" -> 3

DownloadingEvents == {i \in DOMAIN progress : progress[i].phase = "downloading"}

\* The attempts that have ended: the keys fetched and no longer in flight.
AttemptsEnded == {k \in Keys : fetches[k] > 0} \ InFlightKeys

C27_EventsInOrder ==
  /\ \A i, j \in DOMAIN progress :
       i < j => /\ PhaseRank(progress[i].phase) <= PhaseRank(progress[j].phase)
                /\ progress[i].phase # "done"
                /\ progress[i].completed <= progress[j].completed
                /\ progress[i].failed <= progress[j].failed
  /\ \A i \in DownloadingEvents :
       IF i - 1 \in DownloadingEvents
       THEN progress[i].completed + progress[i].failed
              = progress[i - 1].completed + progress[i - 1].failed + 1
       ELSE progress[i].completed + progress[i].failed = 0
  /\ \A k \in Keys : fetches[k] <= 1
  /\ pc \in {"downloading", "returned"} /\ DownloadingEvents # {} =>
       Cardinality(DownloadingEvents) = 1 + Cardinality(AttemptsEnded)

C27_EventsOnlyAppended ==
  /\ Len(progress') >= Len(progress)
  /\ SubSeq(progress', 1, Len(progress)) = progress

\* C27: the progress events of an invocation come in the order checking,
\* downloading, done, with nothing after done; completed and failed never
\* decrease along them; the first downloading event reports no attempt and
\* each further one reports one attempt more, completed or failed; there is
\* one downloading event for every attempt that has ended; and an event,
\* once emitted, stays as it is.
C27_ProgressOrdered == []C27_EventsInOrder /\ [][C27_EventsOnlyAppended]_vars

\* An invocation that has ended after one attempt completed and one failed.
C27_Witness ==
  /\ pc = "returned"
  /\ Len(progress) = 5
  /\ progress[Len(progress)].phase = "done"
  /\ progress[Len(progress)].completed = 1
  /\ progress[Len(progress)].failed = 1

\* The number of keys the workers have taken from the queue.
Dequeued == Cardinality({k \in Keys : fetches[k] > 0})

\* C28: under every interleaving of the workers, every key a worker holds
\* is a key of the list to download (never undefined), no key is held by
\* two workers, and the queue is what is left of that list after the keys
\* taken so far: each dequeue took the head of a non-empty queue, and the
\* queue has total minus the number of keys taken, never fewer than 0.
C28_DequeueFromNonEmpty ==
  pc = "downloading" =>
    /\ \A w \in InFlight : workers[w].key \in Range(toDownload)
    /\ \A v, w \in InFlight : v # w => workers[v].key # workers[w].key
    /\ Dequeued <= total
    /\ Len(queue) = total - Dequeued
    /\ queue = SubSeq(toDownload, Dequeued + 1, total)

\* Two workers and one key: the second worker found the queue empty and
\* returned while the first holds the key.
C28_Witness ==
  /\ pc = "downloading"
  /\ concurrency = 2
  /\ total = 1
  /\ queue = <<>>
  /\ workers[1].pc = "fetch"
  /\ workers[2].pc = "returned"

\* C29: when every read and write of the store, every fetch and every
\* delay settles in the end, an invocation of downloadTiles that is under
\* way returns a result in the end, cancelled or not.
C29_EventuallyReturns ==
  pc \in {"checking", "downloading"} ~> pc = "returned"

\* The number of points of a segment that the walk of one zoom level
\* examines, the final point of lines 363-366 apart.
Examined(segment) == Cardinality(sampledIndices(segment))

HighZoomWalked == tilesPc = "returned" /\ MathMax(14, zoomMin) <= zoomMax

\* C30 as stated: the walk examines at most 500 points of a segment.
C30_AtMost500_AsStated ==
  HighZoomWalked =>
    \A n \in 1..Len(routeData.segments) :
      Examined(routeData.segments[n]) <= 500

\* C30: the walk of a segment of len >= 1 points examines every
\* max(1, floor(len / 500))-th point from the first on: all the points
\* when len < 1000, and in every case fewer than 1000 of them and never
\* fewer than 500 when len >= 500.
C30_FewerThan1000 ==
  HighZoomWalked =>
    \A n \in 1..Len(routeData.segments) :
      LET len == Len(routeData.segments[n])
          count == Examined(routeData.segments[n])
      IN /\ count < 1000
         /\ len < 1000 => count = len
         /\ len >= 500 => count >= 500

\* A segment of 999 points, every one of which is examined.
C30_Witness ==
  /\ HighZoomWalked
  /\ \E n \in 1..Len(routeData.segments) :
       /\ Len(routeData.segments[n]) = 999
       /\ Examined(routeData.segments[n]) = 999

\* The POI a placemark gives: one when it has a Point with two coordinate
\* parts or more, none otherwise.
PoisOf(pm) ==
  IF pm.point # <<>> /\ pm.point[1].coordinates # <<>>
       /\ Len(pm.point[1].coordinates[1]) >= 2
  THEN 1 ELSE 0

\* The lines of a list that have a point at least, parsed, in their order.
NonEmptyLines(lineStrings) ==
  SelectSeq([i \in 1..Len(lineStrings) |-> parseCoordinates(lineStrings[i])],
            LAMBDA seg : Len(seg) > 0)

\* The segments a placemark gives: none when it has a Point; else the lines
\* of its MultiGeometry; else its line.
SegmentsOf(pm) ==
  IF pm.point # <<>> THEN <<>>
  ELSE IF pm.multiGeo # <<>> THEN NonEmptyLines(pm.multiGeo[1])
  ELSE NonEmptyLines(pm.lineString)

RECURSIVE PoisUpTo(_)
PoisUpTo(n) == IF n = 0 THEN 0 ELSE PoisUpTo(n - 1) + PoisOf(kmlDoc[n])

RECURSIVE SegmentsUpTo(_)
SegmentsUpTo(n) ==
  IF n = 0 THEN <<>> ELSE SegmentsUpTo(n - 1) \o SegmentsOf(kmlDoc[n])

\* C31: a placemark gives one POI or segments, never both: with a Point it
\* gives no segment, whatever lines it has, and one POI at most; without a
\* Point it gives the lines of its MultiGeometry, and without that its
\* line.  pois and segments hold what the placemarks give, in the order of
\* the document.
C31_PointThenMultiThenLine ==
  parsePc = "returned" =>
    /\ \A n \in 1..Len(kmlDoc) :
         PoisOf(kmlDoc[n]) = 1 => SegmentsOf(kmlDoc[n]) = <<>>
    /\ Len(parsed.pois) = PoisUpTo(Len(kmlDoc))
    /\ parsed.segments = SegmentsUpTo(Len(kmlDoc))

\* A placemark with a Point, a MultiGeometry and a line, then one with a
\* MultiGeometry of three lines, one of them empty, and a line: one POI
\* and the two lines of the second MultiGeometry.
C31_Witness ==
  /\ parsePc = "returned"
  /\ Len(kmlDoc) = 2
  /\ kmlDoc[1].point # <<>> /\ kmlDoc[1].multiGeo # <<>>
  /\ kmlDoc[2].point = <<>> /\ kmlDoc[2].lineString # <<>>
  /\ kmlDoc[2].multiGeo # <<>> /\ Len(kmlDoc[2].multiGeo[1]) = 3
  /\ Len(parsed.pois) = 1
  /\ Len(parsed.segments) = 2

\* C32: every key returned addresses a tile of the grid of its zoom:
\* 0 <= x < 2^z and 0 <= y < 2^z.
C32_TilesOnTheGrid ==
  tilesPc = "returned" =>
    \A t \in tiles : /\ 0 <= t[2] /\ t[2] < Pow2(t[1])
                     /\ 0 <= t[3] /\ t[3] < Pow2(t[1])

\* The bounding box holds every point of the route, as the box computed by
\* the parser does.
BBoxHolds(rd) ==
  \A n \in DOMAIN rd.segments : \A i \in DOMAIN rd.segments[n] :
    LET p == rd.segments[n][i]
    IN /\ rd.bbox.minLat <= p[1] /\ p[1] <= rd.bbox.maxLat
       /\ rd.bbox.minLon <= p[2] /\ p[2] <= rd.bbox.maxLon

\* The tile that contains the point at zoom z.
TileOf(point, z) == <<z, lon2tile(point[2], z), lat2tile(point[1], z)>>

\* C33: for every point of every segment of the route, sampled or not, and
\* every zoom of zoomMin..zoomMax, the tile that contains the point is in
\* the result.
C33_EveryPointCovered ==
  (tilesPc = "returned" /\ BBoxHolds(routeData)) =>
    \A n \in DOMAIN routeData.segments :
      \A i \in DOMAIN routeData.segments[n] :
        \A z \in zoomMin..zoomMax :
          TileOf(routeData.segments[n][i], z) \in tiles

\* C34: for every createTile call done is invoked exactly once: never more
\* than once, and once when the chain of the call has come to its end.
C34_DoneExactlyOnce ==
  \A r \in TileRequests :
    /\ layer[r].done <= 1
    /\ layer[r].pc = "shown" => layer[r].done = 1

\* C35: an entry of the routes cache that is a successful response is never
\* replaced by a response that is not one, so the entry of a url is a
\* successful response from the first time one is stored.
C35_OkEntryKept == [][isOk(routesCache) => isOk(routesCache')]_vars

\* The click handler stops the tracker in this step.
StopRuns == gps.gpsStarted /\ ~gps'.gpsStarted

\* C36: at most one geolocation watch is registered at any time, and after
\* stop() none remains.
C36_AtMostOneWatch ==
  /\ [](Cardinality(gps.watches) <= 1)
  /\ [][StopRuns => gps'.watches = {}]_vars

\* C37: after stop() no orientation listener remains registered on window.
C37_NoListenerAfterStop == [][StopRuns => gps'.listeners = {}]_vars

\* Cancel has been pressed while the download is running.
CancelledWhileRunning ==
  signal = "aborted" /\ pc \in {"checking", "downloading"}

\* C38: whenever cancel is pressed while the download is running, in the
\* checking or in the downloading phase, the panel is hidden in the end and
\* the download button visible again.
C38_PanelHiddenInTheEnd ==
  CancelledWhileRunning ~> (panelHidden /\ ~buttonHidden)

====
